---- MODULE Spec2Model ----
(***************************************************************************)
(* Ndc.FormBuilder: the v1 conditional rule engine.                        *)
(*                                                                         *)
(*   - the condition evaluator   (condition-engine.ts: evaluateConditions) *)
(*   - the rule DSL              (condition-dsl: when / EffectBuilder /    *)
(*                                ElseEffectBuilder)                       *)
(*   - the form store            (ndc-form: createNotifier, api, metaApi)  *)
(*   - the condition bridge      (ndc-form.v1.tsx: ConditionBridge)        *)
(*   - the dependency graph      (condition-graph.ts: linkDependency,      *)
(*                                condition-types.ts: detectCycles)        *)
(*                                                                         *)
(* JavaScript values are records [t, n, s]; JavaScript objects with string *)
(* keys are sequences of [k, v] entries in insertion order, which is the   *)
(* order Object.keys reports.  A field path "a.b.c" is the sequence of its *)
(* dot segments <<"a", "b", "c">>, so that split(".") / join(".") are      *)
(* computed and not assumed.                                               *)
(***************************************************************************)
EXTENDS Integers, Sequences, FiniteSets, TLC

VARIABLES
    evRules,      \* evaluator harness: the rules array handed to evaluateConditions
    evValues,     \* evaluator harness: the value map handed to evaluateConditions
    evOut,        \* evaluator harness: what the last call returned
    dslArrays,    \* DSL: the effect arrays allocated so far, by identity
    dslBuilders,  \* DSL: the builder objects allocated so far, by identity
    dslRules,     \* DSL: the rule list the last toRules() call returned
    trFn,         \* tracing harness: the predicate handed to traceReads
    trValues,     \* tracing harness: the value map handed to traceReads
    trOut,        \* tracing harness: what the last call returned
    grGraph,      \* graph harness: the dependency graph linked so far
    grCycles,     \* graph harness: what detectCycles returned
    form,         \* the form in use: its rules, fields, inputs and observers
    store,        \* the form store: values, errors, meta, validation state
    notifier,     \* the store's notifier: listener maps and listener Sets
    bridge,       \* the variables of the condition bridge's closure
    handles,      \* the subscription handles held outside the bridge
    spent,        \* the value handle called last, still held by its component
    wrote,        \* the last guarded meta write, if meta was not written since
    last,         \* the handler that ran last, with what it wrote and notified
    inflight,     \* the promises of async validators not resolved yet
    opsLeft,      \* the store operations the form's components may still make
    checksLeft,   \* the validateField calls the form's components may still make
    beat          \* the parity of the passes run, where the microtask queue counts them

evVars == <<evRules, evValues, evOut>>

dslVars == <<dslArrays, dslBuilders, dslRules>>

trVars == <<trFn, trValues, trOut>>

grVars == <<grGraph, grCycles>>

formVars == <<form, store, notifier, bridge, handles, spent, wrote, last, inflight,
              opsLeft, checksLeft, beat>>

vars == <<evRules, evValues, evOut, dslArrays, dslBuilders, dslRules,
          trFn, trValues, trOut, grGraph, grCycles,
          form, store, notifier, bridge, handles, spent, wrote, last, inflight,
          opsLeft, checksLeft, beat>>

-----------------------------------------------------------------------------
(* Bounds of the model *)

MaxRules == 2
MaxBuilders == 3
MaxEffects == 1
MaxOps == 3
MaxChecks == 2
MaxLinks == 4

-----------------------------------------------------------------------------
(* JavaScript values *)

Undefined == [t |-> "undef", n |-> 0, s |-> ""]
Num(i)    == [t |-> "num", n |-> i, s |-> ""]
Str(x)    == [t |-> "str", n |-> 0, s |-> x]
JSBool(b) == [t |-> "bool", n |-> IF b THEN 1 ELSE 0, s |-> ""]
JSTrue    == JSBool(TRUE)
JSFalse   == JSBool(FALSE)

\* ToBoolean: undefined, 0, "" and false are falsy
Truthy(v) ==
    CASE v.t = "undef" -> FALSE
      [] v.t = "bool"  -> v.n = 1
      [] v.t = "num"   -> v.n # 0
      [] v.t = "str"   -> v.s # ""
      [] OTHER         -> FALSE

\* the ! operator
JSNot(v) == JSBool(~Truthy(v))

\* Boolean(x)
ToBoolean(v) == JSBool(Truthy(v))

-----------------------------------------------------------------------------
(* JavaScript objects: entries [k, v] in insertion order *)

EmptyObj == <<>>

Keys(o) == [i \in 1..Len(o) |-> o[i].k]

KeySet(o) == {o[i].k : i \in 1..Len(o)}

Has(o, key) == \E i \in 1..Len(o) : o[i].k = key

IndexOf(o, key) == CHOOSE i \in 1..Len(o) : o[i].k = key

\* o[key] for a map of JavaScript values: undefined when the key is absent
Get(o, key) == IF Has(o, key) THEN o[IndexOf(o, key)].v ELSE Undefined

\* o[key] = val: an existing key keeps its place, a new key goes last
Put(o, key, val) ==
    IF Has(o, key)
    THEN [o EXCEPT ![IndexOf(o, key)] = [k |-> key, v |-> val]]
    ELSE Append(o, [k |-> key, v |-> val])

\* delete o[key]
Del(o, key) ==
    IF Has(o, key)
    THEN LET i == IndexOf(o, key)
         IN  SubSeq(o, 1, i - 1) \o SubSeq(o, i + 1, Len(o))
    ELSE o

-----------------------------------------------------------------------------
(* Predicates and value functions supplied by the form author.            *)
(* A predicate is [fn, wrap]: a base function and the wrappers the DSL put *)
(* around it, innermost first ("Boolean" by when(), "not" by invertWhen). *)

RawPred(fn) == [fn |-> fn, wrap |-> <<>>]

\* what a call ends with when it throws instead of returning
Thrown == [t |-> "throw", n |-> 0, s |-> ""]

\* a property read: a string key of the flat value map, or a symbol
ReadKey(key) == [sym |-> FALSE, key |-> key]
ReadSymbol   == [sym |-> TRUE, key |-> <<>>]

Ran(reads, result) == [reads |-> reads, result |-> result]

\* one run of the base function on a value map: the properties it reads from
\* the map, in order, and what it returns (Thrown if it throws)
PredRun(fn, vals) ==
    CASE fn = "always"      -> Ran(<<>>, JSTrue)
      [] fn = "aIs1"        -> Ran(<<ReadKey(<<"a">>)>>, JSBool(Get(vals, <<"a">>) = Num(1)))
      [] fn = "aValue"      -> Ran(<<ReadKey(<<"a">>)>>, Get(vals, <<"a">>))
      [] fn = "countryIsUS" -> Ran(<<ReadKey(<<"country">>)>>,
                                   JSBool(Get(vals, <<"country">>) = Str("US")))
      [] fn = "countryIsCA" -> Ran(<<ReadKey(<<"country">>)>>,
                                   JSBool(Get(vals, <<"country">>) = Str("CA")))
      [] fn = "xIs1"        -> Ran(<<ReadKey(<<"x">>)>>, JSBool(Get(vals, <<"x">>) = Num(1)))
      [] fn = "xIs2"        -> Ran(<<ReadKey(<<"x">>)>>, JSBool(Get(vals, <<"x">>) = Num(2)))
      [] fn = "xIs3"        -> Ran(<<ReadKey(<<"x">>)>>, JSBool(Get(vals, <<"x">>) = Num(3)))
      \* (v) => v.x === 1 && v.y === 1
      [] fn = "xAndY"       -> IF Get(vals, <<"x">>) = Num(1)
                               THEN Ran(<<ReadKey(<<"x">>), ReadKey(<<"y">>)>>,
                                        JSBool(Get(vals, <<"y">>) = Num(1)))
                               ELSE Ran(<<ReadKey(<<"x">>)>>, JSFalse)
      \* (v) => v.x.toFixed() === "1"
      [] fn = "xFixedIs1"   -> Ran(<<ReadKey(<<"x">>)>>,
                                   IF Get(vals, <<"x">>).t = "num"
                                   THEN JSBool(Get(vals, <<"x">>) = Num(1))
                                   ELSE Thrown)
      \* (v) => v.q.length > 0 && v.x === 1
      [] fn = "qLength"     -> IF Get(vals, <<"q">>).t # "str"
                               THEN Ran(<<ReadKey(<<"q">>)>>, Thrown)
                               ELSE IF Get(vals, <<"q">>).s = ""
                               THEN Ran(<<ReadKey(<<"q">>)>>, JSFalse)
                               ELSE Ran(<<ReadKey(<<"q">>), ReadKey(<<"x">>)>>,
                                        JSBool(Get(vals, <<"x">>) = Num(1)))
      \* (v) => v[Symbol.iterator] === undefined && v.x === 1
      [] fn = "symThenX"    -> Ran(<<ReadSymbol, ReadKey(<<"x">>)>>,
                                   JSBool(Get(vals, <<"x">>) = Num(1)))
      [] OTHER              -> Ran(<<>>, Undefined)

\* what the base function returns on a value map
PredBase(fn, vals) == PredRun(fn, vals).result

RECURSIVE ApplyWraps(_, _, _)
ApplyWraps(wrap, i, val) ==
    IF i > Len(wrap) \/ val = Thrown THEN val
    ELSE ApplyWraps(wrap, i + 1,
                    IF wrap[i] = "Boolean" THEN ToBoolean(val) ELSE JSNot(val))

\* rule.when(values)
CallWhen(pred, vals) == ApplyWraps(pred.wrap, 1, PredBase(pred.fn, vals))

\* a set effect's value function called on a value map
CallValueFn(fn, vals) ==
    CASE fn = "bPlus1" -> LET b == Get(vals, <<"b">>)
                          IN  IF b.t = "num" THEN Num(b.n + 1) ELSE Undefined
      [] fn = "copyA"  -> Get(vals, <<"a">>)
      \* (v) => v.y.toFixed()
      [] fn = "yFixed" -> IF Get(vals, <<"y">>).t = "num"
                          THEN Str("n") ELSE Thrown
      [] OTHER         -> Undefined

-----------------------------------------------------------------------------
(* Rules and effects (condition-types.ts) *)

Effect(type, field) == [type |-> type, field |-> field, value |-> Undefined, fn |-> ""]
SetLit(field, val)  == [type |-> "set", field |-> field, value |-> val, fn |-> ""]
SetFn(field, fn)    == [type |-> "set", field |-> field, value |-> Undefined, fn |-> fn]

Rule(pred, effects, priority) ==
    [when |-> pred, effects |-> effects, priority |-> priority]

\* a meta patch {visible?, enabled?, validate?}: Undefined stands for a key not set
NoPatch == [visible |-> Undefined, enabled |-> Undefined, validate |-> Undefined]

-----------------------------------------------------------------------------
(* condition-engine.ts *)

\* rule.priority ?? 0
PriorityOf(rule) == IF rule.priority.t = "undef" THEN 0 ELSE rule.priority.n

\* a comparator that sorts by ascending priority
ComparePriorityAscending(a, b) == PriorityOf(a) - PriorityOf(b)

\* the sort comparator (a, b) => (b.priority ?? 0) - (a.priority ?? 0)
ComparePriority(a, b) == PriorityOf(b) - PriorityOf(a)

\* InsertSorted with ties placed first: a sort that is not stable
RECURSIVE InsertSortedUnstable(_, _)
InsertSortedUnstable(sorted, x) ==
    IF sorted = <<>> THEN <<x>>
    ELSE IF ComparePriority(x, sorted[1]) <= 0
         THEN <<x>> \o sorted
         ELSE <<sorted[1]>> \o InsertSortedUnstable(Tail(sorted), x)

\* x placed into a sorted sequence after every element that does not sort
\* after it (Array.prototype.sort is stable)
RECURSIVE InsertSorted(_, _)
InsertSorted(sorted, x) ==
    IF sorted = <<>> THEN <<x>>
    ELSE IF ComparePriority(x, sorted[1]) < 0
         THEN <<x>> \o sorted
         ELSE <<sorted[1]>> \o InsertSorted(Tail(sorted), x)

\* [...rules].sort(comparator)
RECURSIVE SortRules(_)
SortRules(rules) ==
    IF rules = <<>> THEN <<>>
    ELSE InsertSorted(SortRules(SubSeq(rules, 1, Len(rules) - 1)), rules[Len(rules)])

\* meta[field] = { ...meta[field], <key>: <flag> }
MetaWith(meta, field, patch) ==
    LET old == IF Has(meta, field) THEN meta[IndexOf(meta, field)].v ELSE NoPatch
        new == [visible  |-> IF patch.visible.t  # "undef" THEN patch.visible  ELSE old.visible,
                enabled  |-> IF patch.enabled.t  # "undef" THEN patch.enabled  ELSE old.enabled,
                validate |-> IF patch.validate.t # "undef" THEN patch.validate ELSE old.validate]
    IN  Put(meta, field, new)

\* applyEffect with set and clear writing into values instead of nextValues
applyEffectIntoValues(effect, st) ==
    CASE effect.type = "show" ->
           [st EXCEPT !.meta = MetaWith(st.meta, effect.field, [NoPatch EXCEPT !.visible = JSTrue])]
      [] effect.type = "hide" ->
           [st EXCEPT !.meta = MetaWith(st.meta, effect.field, [NoPatch EXCEPT !.visible = JSFalse])]
      [] effect.type = "enable" ->
           [st EXCEPT !.meta = MetaWith(st.meta, effect.field, [NoPatch EXCEPT !.enabled = JSTrue])]
      [] effect.type = "disable" ->
           [st EXCEPT !.meta = MetaWith(st.meta, effect.field, [NoPatch EXCEPT !.enabled = JSFalse])]
      [] effect.type = "set" ->
           [st EXCEPT !.values =
               Put(st.values, effect.field,
                   IF effect.fn # "" THEN CallValueFn(effect.fn, st.values)
                                     ELSE effect.value),
                      !.seen = IF effect.fn # "" THEN Append(@, st.values) ELSE @]
      [] effect.type = "clear" ->
           [st EXCEPT !.values = Put(st.values, effect.field, Undefined)]
      [] OTHER -> st

\* applyEffect(effect, values, nextValues, meta) on the call's state
\* st = [values, rules, nextValues, meta, seen]; seen lists the value maps
\* handed to the author's predicates and value functions, in call order
applyEffect(effect, st) ==
    CASE effect.type = "show" ->
           [st EXCEPT !.meta = MetaWith(st.meta, effect.field, [NoPatch EXCEPT !.visible = JSTrue])]
      [] effect.type = "hide" ->
           [st EXCEPT !.meta = MetaWith(st.meta, effect.field, [NoPatch EXCEPT !.visible = JSFalse])]
      [] effect.type = "enable" ->
           [st EXCEPT !.meta = MetaWith(st.meta, effect.field, [NoPatch EXCEPT !.enabled = JSTrue])]
      [] effect.type = "disable" ->
           [st EXCEPT !.meta = MetaWith(st.meta, effect.field, [NoPatch EXCEPT !.enabled = JSFalse])]
      [] effect.type = "set" ->
           IF effect.fn # "" /\ CallValueFn(effect.fn, st.values) = Thrown
           THEN [st EXCEPT !.seen = Append(@, st.values), !.thrown = TRUE]
           ELSE [st EXCEPT !.nextValues =
                    Put(st.nextValues, effect.field,
                        IF effect.fn # "" THEN CallValueFn(effect.fn, st.values)
                                          ELSE effect.value),
                           !.seen = IF effect.fn # "" THEN Append(@, st.values) ELSE @]
      [] effect.type = "clear" ->
           [st EXCEPT !.nextValues = Put(st.nextValues, effect.field, Undefined)]
      [] OTHER -> st

RECURSIVE ApplyEffects(_, _, _)
ApplyEffects(effects, i, st) ==
    IF i > Len(effects) \/ st.thrown THEN st
    ELSE ApplyEffects(effects, i + 1, applyEffect(effects[i], st))

\* the value map with the entries of a patch written over it
RECURSIVE Overlay(_, _, _)
Overlay(values, patch, i) ==
    IF i > Len(patch) THEN values
    ELSE Overlay(Put(values, patch[i].k, patch[i].v), patch, i + 1)

\* the loop with every predicate called on the values as patched so far
RECURSIVE EvalLoopOnPatched(_, _, _)
EvalLoopOnPatched(sorted, i, st) ==
    IF i > Len(sorted) THEN st
    ELSE LET Called(vals) ==
                 IF ~Truthy(CallWhen(sorted[i].when, vals))
                 THEN [st EXCEPT !.seen = Append(@, vals)]
                 ELSE ApplyEffects(sorted[i].effects, 1,
                                   [st EXCEPT !.seen = Append(@, vals)])
         IN  EvalLoopOnPatched(sorted, i + 1, Called(Overlay(st.values, st.nextValues, 1)))

\* the loop with the effects of every rule applied, whatever its predicate returns
RECURSIVE EvalLoopNoSkip(_, _, _)
EvalLoopNoSkip(sorted, i, st) ==
    IF i > Len(sorted) THEN st
    ELSE EvalLoopNoSkip(sorted, i + 1,
             ApplyEffects(sorted[i].effects, 1,
                          [st EXCEPT !.seen = Append(@, st.values)]))

\* for (const rule of sorted) { if (!rule.when(values)) continue; ... }
RECURSIVE EvalLoop(_, _, _)
EvalLoop(sorted, i, st) ==
    IF i > Len(sorted) \/ st.thrown THEN st
    ELSE IF CallWhen(sorted[i].when, st.values) = Thrown
         THEN [st EXCEPT !.seen = Append(@, st.values), !.thrown = TRUE]
         ELSE IF ~Truthy(CallWhen(sorted[i].when, st.values))
         THEN EvalLoop(sorted, i + 1, [st EXCEPT !.seen = Append(@, st.values)])
         ELSE EvalLoop(sorted, i + 1,
                       ApplyEffects(sorted[i].effects, 1,
                                    [st EXCEPT !.seen = Append(@, st.values)]))

\* evaluateConditions(values, rules): the returned patches, the two arguments
\* as the call leaves them, and whether the call threw instead of returning
evaluateConditions(values, rules) ==
    LET Returned(st) == [desiredValues |-> st.nextValues, meta |-> st.meta,
                         values |-> st.values, rules |-> st.rules, seen |-> st.seen,
                         thrown |-> st.thrown]
    IN  Returned(EvalLoop(SortRules(rules), 1,
                          [values |-> values, rules |-> rules,
                           nextValues |-> EmptyObj, meta |-> EmptyObj, seen |-> <<>>,
                           thrown |-> FALSE]))

-----------------------------------------------------------------------------
(* Evaluator harness: evaluateConditions called on bounded inputs *)

\* predicate and priority of a rule: every priority with a constant predicate,
\* and a predicate that reads the value map with no priority and with the highest
EvRuleHeads ==
    { <<RawPred("always"), pr>> : pr \in {Undefined, Num(0), Num(5), Num(10)} }
        \cup { <<RawPred("aIs1"), pr>> : pr \in {Undefined, Num(10)} }

EvEffectLists ==
    { <<Effect("show", <<"a">>)>>,
      <<Effect("hide", <<"a">>)>>,
      <<Effect("enable", <<"a">>)>>,
      <<Effect("disable", <<"a">>)>>,
      <<SetLit(<<"a">>, Num(1))>>,
      <<Effect("clear", <<"a">>)>>,
      <<SetLit(<<"b">>, Num(5)), SetFn(<<"a">>, "bPlus1")>> }

EvRuleDomain ==
    { Rule(h[1], e, h[2]) : h \in EvRuleHeads, e \in EvEffectLists }

EvRuleSets == UNION { [1..n -> EvRuleDomain] : n \in 1..MaxRules }

EvValueMaps ==
    { << [k |-> <<"a">>, v |-> Num(a)], [k |-> <<"b">>, v |-> Num(2)] >> : a \in {0, 1} }

NoOut == [desiredValues |-> EmptyObj, meta |-> EmptyObj, seen |-> <<>>, called |-> FALSE]

\* the evaluator harness, not in use
EvIdle ==
    /\ evRules = <<>>
    /\ evValues = EmptyObj
    /\ evOut = NoOut

EvInputs ==
    /\ evRules \in EvRuleSets
    /\ evValues \in EvValueMaps
    /\ evOut = NoOut

\* one call of evaluateConditions(evValues, evRules), on the arguments as the
\* call before it left them
EvalCall ==
    /\ LET out == evaluateConditions(evValues, evRules)
       IN  /\ evOut' = [desiredValues |-> out.desiredValues, meta |-> out.meta,
                        seen |-> out.seen, called |-> TRUE]
           /\ evValues' = out.values
           /\ evRules' = out.rules
    /\ UNCHANGED <<dslVars, trVars, grVars, formVars>>

-----------------------------------------------------------------------------
(* Properties of evaluateConditions *)

NoEntry == [t |-> "none", n |-> 0, s |-> ""]

PatchChannels == {"visible", "enabled", "value"}

EvFields == {<<"a">>, <<"b">>}

\* what one effect writes to the patch entry (field, channel), NoEntry if nothing
EffectWrite(effect, field, ch, vals) ==
    IF effect.field # field THEN NoEntry
    ELSE CASE ch = "visible" /\ effect.type = "show"    -> JSTrue
           [] ch = "visible" /\ effect.type = "hide"    -> JSFalse
           [] ch = "enabled" /\ effect.type = "enable"  -> JSTrue
           [] ch = "enabled" /\ effect.type = "disable" -> JSFalse
           [] ch = "value"   /\ effect.type = "clear"   -> Undefined
           [] ch = "value"   /\ effect.type = "set"     ->
                IF effect.fn # "" THEN CallValueFn(effect.fn, vals) ELSE effect.value
           [] OTHER -> NoEntry

\* what a rule's effects, taken in declared order, leave in (field, channel)
RECURSIVE RuleWriteFrom(_, _, _, _, _, _)
RuleWriteFrom(effects, i, field, ch, vals, acc) ==
    IF i > Len(effects) THEN acc
    ELSE LET w == EffectWrite(effects[i], field, ch, vals)
         IN  RuleWriteFrom(effects, i + 1, field, ch, vals, IF w = NoEntry THEN acc ELSE w)

RuleWrite(rule, field, ch, vals) == RuleWriteFrom(rule.effects, 1, field, ch, vals, NoEntry)

\* the entry (field, channel) of a returned pair of patches, NoEntry if absent
PatchEntry(out, field, ch) ==
    IF ch = "value"
    THEN IF Has(out.desiredValues, field) THEN Get(out.desiredValues, field) ELSE NoEntry
    ELSE IF ~Has(out.meta, field) THEN NoEntry
         ELSE LET m == out.meta[IndexOf(out.meta, field)].v
                  x == IF ch = "visible" THEN m.visible ELSE m.enabled
              IN  IF x.t = "undef" THEN NoEntry ELSE x

RuleFires(rule, vals) == Truthy(CallWhen(rule.when, vals))

\* the priority a rule counts with: an absent priority counts as 0
StatedPriority(rule) == IF rule.priority = Undefined THEN 0 ELSE rule.priority.n

\* rules i and j both fire and leave different values in (field, channel)
Conflict(i, j, field, ch) ==
    /\ i # j
    /\ RuleFires(evRules[i], evValues)
    /\ RuleFires(evRules[j], evValues)
    /\ RuleWrite(evRules[i], field, ch, evValues) # NoEntry
    /\ RuleWrite(evRules[j], field, ch, evValues) # NoEntry
    /\ RuleWrite(evRules[i], field, ch, evValues) # RuleWrite(evRules[j], field, ch, evValues)

\* no firing rule other than i and j writes (field, channel)
OnlyWriters(i, j, field, ch) ==
    \A k \in 1..Len(evRules) :
        (k # i /\ k # j /\ RuleFires(evRules[k], evValues))
            => RuleWrite(evRules[k], field, ch, evValues) = NoEntry

\* C1: when a priority-10 rule and a priority-5 rule both fire and conflict on a
\* field (show/hide, enable/disable or two set values), the returned patch for
\* the field holds the priority-10 rule's effect, whichever was declared first.
C1_HigherPriorityWins ==
    evOut.called =>
        \A i, j \in 1..Len(evRules) : \A f \in EvFields : \A ch \in PatchChannels :
            ( /\ Conflict(i, j, f, ch)
              /\ OnlyWriters(i, j, f, ch)
              /\ evRules[i].priority = Num(10)
              /\ evRules[j].priority = Num(5) )
            => PatchEntry(evOut, f, ch) = RuleWrite(evRules[i], f, ch, evValues)

\* no firing rule that sorts after rule j writes (field, channel)
NoLaterWriter(j, field, ch) ==
    \A k \in 1..Len(evRules) :
        ( /\ k # j
          /\ RuleFires(evRules[k], evValues)
          /\ \/ StatedPriority(evRules[k]) < StatedPriority(evRules[j])
             \/ (StatedPriority(evRules[k]) = StatedPriority(evRules[j]) /\ k > j) )
        => RuleWrite(evRules[k], field, ch, evValues) = NoEntry

\* C2: two rules of equal priority (absent counts as 0) that both fire are
\* applied in declaration order: on a conflicting field or meta key the rule
\* declared later determines the returned patch.
C2_StableTieBreak ==
    evOut.called =>
        \A i, j \in 1..Len(evRules) : \A f \in EvFields : \A ch \in PatchChannels :
            ( /\ i < j
              /\ Conflict(i, j, f, ch)
              /\ StatedPriority(evRules[i]) = StatedPriority(evRules[j])
              /\ NoLaterWriter(j, f, ch) )
            => PatchEntry(evOut, f, ch) = RuleWrite(evRules[j], f, ch, evValues)

\* a call was made on two conflicting rules, the first with no priority and the
\* second with priority 0, and the second one's hide is in the patch
C2_Witness ==
    /\ evOut.called
    /\ Len(evRules) >= 2
    /\ Conflict(1, 2, <<"a">>, "visible")
    /\ evRules[1].priority = Undefined
    /\ evRules[2].priority = Num(0)
    /\ RuleWrite(evRules[2], <<"a">>, "visible", evValues) = JSFalse
    /\ PatchEntry(evOut, <<"a">>, "visible") = JSFalse

\* C8: a second call of evaluateConditions with the same rule set and an
\* unchanged value map returns the same desiredValues and meta patches, and a
\* call leaves the input value map and the rule set unchanged.
C8_Idempotent ==
    [][EvalCall =>
        /\ evValues' = evValues
        /\ evRules' = evRules
        /\ (evOut.called => evOut' = evOut)]_vars

\* a call returned two non-empty patches, and the next call starts from here
C8_Witness ==
    /\ evOut.called
    /\ ENABLED EvalCall
    /\ evOut.desiredValues # EmptyObj
    /\ evOut.meta # EmptyObj

\* C11: within one evaluateConditions call every rule predicate and every set
\* value function is called with the original input value map; a value that an
\* earlier-applied set or clear effect recorded is never visible to them.
C11_SinglePassProjection ==
    [][EvalCall => \A i \in 1..Len(evOut'.seen) : evOut'.seen[i] = evValues]_vars

\* a call whose first effect recorded b = 5 and whose next effect computed a
\* from b with a value function: the function saw the input's b = 2
C11_Witness ==
    /\ evOut.called
    /\ Len(evOut.seen) >= 2
    /\ Get(evValues, <<"b">>) = Num(2)
    /\ Get(evOut.desiredValues, <<"b">>) = Num(5)
    /\ Get(evOut.desiredValues, <<"a">>) = Num(3)

\* some rule that fires on the input has an effect of the channel's kind on the field
FiringWriter(field, ch) ==
    \E i \in 1..Len(evRules) :
        /\ RuleFires(evRules[i], evValues)
        /\ RuleWrite(evRules[i], field, ch, evValues) # NoEntry

\* C12: a rule whose predicate is false on the input contributes nothing: a
\* field or meta key is in the returned patches only if some rule with a true
\* predicate has an effect targeting it.
C12_FalseRuleContributesNothing ==
    evOut.called =>
        /\ \A f \in KeySet(evOut.desiredValues) : FiringWriter(f, "value")
        /\ \A f \in KeySet(evOut.meta) :
              FiringWriter(f, "visible") \/ FiringWriter(f, "enabled")
        /\ \A f \in EvFields : \A ch \in PatchChannels :
              PatchEntry(evOut, f, ch) # NoEntry => FiringWriter(f, ch)

\* a call on a rule that sets a and whose predicate is false on the input,
\* next to a rule that fires: the patches are not empty and have no entry for a
C12_Witness ==
    /\ evOut.called
    /\ \E i \in 1..Len(evRules) :
          /\ ~RuleFires(evRules[i], evValues)
          /\ RuleWrite(evRules[i], <<"a">>, "value", evValues) = Num(1)
    /\ \E j \in 1..Len(evRules) : RuleFires(evRules[j], evValues)
    /\ evOut.meta # EmptyObj
    /\ ~Has(evOut.desiredValues, <<"a">>)

-----------------------------------------------------------------------------
(* The rule DSL (condition-dsl): builders and arrays are objects with      *)
(* identity, so that what two builders or a builder and a returned rule    *)
(* share is shared in the model too.  A builder is                          *)
(*   [kind, whenFn, effects, elseEffects, priority]                         *)
(* with effects / elseEffects the identities of arrays (0: none); for an   *)
(* ElseEffectBuilder, effects is its thenEffects.                          *)

\* invertWhen with the negation left out
invertWhenSame(pred) == pred

\* invertWhen(fn) = (values) => !fn(values)
invertWhen(pred) == [pred EXCEPT !.wrap = Append(@, "not")]

\* when(): whenFn = (values) => Boolean(predicate(values))
whenFnOf(fn) == [fn |-> fn, wrap |-> <<"Boolean">>]

\* resolveField on a literal path string
resolveField(field) == field

\* the effect object each effect-appending method builds
MethodEffect(call) ==
    CASE call.method = "show"     -> Effect("show", resolveField(call.field))
      [] call.method = "hide"     -> Effect("hide", resolveField(call.field))
      [] call.method = "enable"   -> Effect("enable", resolveField(call.field))
      [] call.method = "disable"  -> Effect("disable", resolveField(call.field))
      [] call.method = "set"      -> SetLit(call.field, call.value)
      [] call.method = "setValue" -> SetFn(resolveField(call.field), call.fn)
      [] OTHER                    -> Effect("clear", resolveField(call.field))

\* new EffectBuilder(whenFn, effects, priority, getField)
NewEffectBuilder(whenFn, effects, priority) ==
    [kind |-> "then", whenFn |-> whenFn, effects |-> effects,
     elseEffects |-> 0, priority |-> priority]

\* new ElseEffectBuilder(whenFn, thenEffects, priority, getField), whose field
\* initialiser allocates its own empty elseEffects array
NewElseEffectBuilder(whenFn, thenEffects, priority, elseEffects) ==
    [kind |-> "else", whenFn |-> whenFn, effects |-> thenEffects,
     elseEffects |-> elseEffects, priority |-> priority]

\* EffectBuilder.show / hide / enable / disable / set / setValue / clear:
\* a new builder over a new array [...this.effects, effect]
EffectBuilderAppend(heap, b, effect) ==
    LET self == heap.builders[b]
        arr  == Len(heap.arrays) + 1
    IN  [arrays   |-> Append(heap.arrays, Append(heap.arrays[self.effects], effect)),
         builders |-> Append(heap.builders,
                             NewEffectBuilder(self.whenFn, arr, self.priority)),
         ret      |-> Len(heap.builders) + 1]

\* ElseEffectBuilder.show / hide / enable / disable / set / setValue / clear:
\* this.elseEffects.push(effect); return this
ElseEffectBuilderAppend(heap, b, effect) ==
    LET self == heap.builders[b]
    IN  [arrays   |-> [heap.arrays EXCEPT ![self.elseEffects] = Append(@, effect)],
         builders |-> heap.builders,
         ret      |-> b]

\* EffectBuilder.withPriority: a new builder over the same effects array
EffectBuilderWithPriority(heap, b, priority) ==
    LET self == heap.builders[b]
    IN  [arrays   |-> heap.arrays,
         builders |-> Append(heap.builders,
                             NewEffectBuilder(self.whenFn, self.effects, priority)),
         ret      |-> Len(heap.builders) + 1]

\* ElseEffectBuilder.withPriority: a new ElseEffectBuilder over the same
\* thenEffects array, with a new empty elseEffects array
ElseEffectBuilderWithPriority(heap, b, priority) ==
    LET self == heap.builders[b]
    IN  [arrays   |-> Append(heap.arrays, <<>>),
         builders |-> Append(heap.builders,
                             NewElseEffectBuilder(self.whenFn, self.effects, priority,
                                                  Len(heap.arrays) + 1)),
         ret      |-> Len(heap.builders) + 1]

\* EffectBuilder.else
EffectBuilderElse(heap, b) ==
    LET self == heap.builders[b]
    IN  [arrays   |-> Append(heap.arrays, <<>>),
         builders |-> Append(heap.builders,
                             NewElseEffectBuilder(self.whenFn, self.effects, self.priority,
                                                  Len(heap.arrays) + 1)),
         ret      |-> Len(heap.builders) + 1]

\* EffectBuilder.toRules
EffectBuilderToRules(self) ==
    << Rule(self.whenFn, self.effects, self.priority) >>

\* ElseEffectBuilder.toRules
ElseEffectBuilderToRules(self) ==
    << Rule(self.whenFn, self.effects, self.priority),
       Rule(invertWhen(self.whenFn), self.elseEffects, self.priority) >>

\* builder.toRules(): the rules hold the builder's arrays, not copies
ToRules(self) ==
    IF self.kind = "then" THEN EffectBuilderToRules(self) ELSE ElseEffectBuilderToRules(self)

\* a rule list with each effects array replaced by what the array holds now
RulesNow(rules, arrays) ==
    [i \in 1..Len(rules) |-> [rules[i] EXCEPT !.effects = arrays[rules[i].effects]]]

\* the predicate handed to when(): it returns the value of field a as it is
\* (a number, a string or undefined), not a boolean
DslPreds == {"aValue"}

FieldA == <<"a">>
FieldB == <<"b">>

\* the calls of effect-appending methods made on builders: a meta effect on
\* each of two fields and a value effect
DslCalls ==
    { [method |-> "show", field |-> f, value |-> Undefined, fn |-> ""] : f \in {FieldA, FieldB} }
    \cup { [method |-> "setValue", field |-> FieldA, value |-> Undefined, fn |-> "bPlus1"] }

DslPriorities == {Num(5)}

\* the value maps rule predicates are judged on
DslValueMaps ==
    { <<>> } \cup { << [k |-> <<"a">>, v |-> x] >> : x \in {Num(0), Num(1), Str("")} }

DslIdle ==
    /\ dslArrays = <<>>
    /\ dslBuilders = <<>>
    /\ dslRules = <<>>

DslHeap == [arrays |-> dslArrays, builders |-> dslBuilders, ret |-> 0]

DslCommit(heap) ==
    /\ dslArrays' = heap.arrays
    /\ dslBuilders' = heap.builders
    /\ UNCHANGED dslRules

\* when(predicate): the entry of a builder chain
DslWhen ==
    /\ dslBuilders = <<>>
    /\ \E fn \in DslPreds :
          DslCommit([arrays   |-> Append(dslArrays, <<>>),
                     builders |-> Append(dslBuilders,
                                         NewEffectBuilder(whenFnOf(fn), Len(dslArrays) + 1,
                                                          Undefined)),
                     ret      |-> Len(dslBuilders) + 1])
    /\ UNCHANGED <<evVars, trVars, grVars, formVars>>

\* builder.show(f), .hide(f), .enable(f), .disable(f), .set(f, x), .setValue(f, fn)
\* or .clear(f) on any builder made so far
BuilderAppend(heap, b, effect) ==
    IF heap.builders[b].kind = "then"
    THEN EffectBuilderAppend(heap, b, effect)
    ELSE ElseEffectBuilderAppend(heap, b, effect)

\* the array an effect-appending method of builder b adds to
AppendsTo(b) ==
    IF dslBuilders[b].kind = "then" THEN dslBuilders[b].effects ELSE dslBuilders[b].elseEffects

DslEffectOn(b, call) ==
    /\ Len(dslArrays[AppendsTo(b)]) < MaxEffects
    /\ dslBuilders[b].kind = "then" => Len(dslBuilders) < MaxBuilders
    /\ DslCommit(BuilderAppend(DslHeap, b, MethodEffect(call)))
    /\ UNCHANGED <<evVars, trVars, grVars, formVars>>

DslEffect ==
    \E b \in 1..Len(dslBuilders) : \E call \in DslCalls : DslEffectOn(b, call)

\* builder.withPriority(n) on any builder made so far
BuilderWithPriority(heap, b, pr) ==
    IF heap.builders[b].kind = "then"
    THEN EffectBuilderWithPriority(heap, b, pr)
    ELSE ElseEffectBuilderWithPriority(heap, b, pr)

DslWithPriorityOn(b, pr) ==
    /\ Len(dslBuilders) < MaxBuilders
    /\ DslCommit(BuilderWithPriority(DslHeap, b, pr))
    /\ UNCHANGED <<evVars, trVars, grVars, formVars>>

DslWithPriority ==
    \E b \in 1..Len(dslBuilders) : \E pr \in DslPriorities : DslWithPriorityOn(b, pr)

\* builder.else() on any EffectBuilder made so far
DslElse ==
    /\ Len(dslBuilders) < MaxBuilders
    /\ \E b \in 1..Len(dslBuilders) :
          /\ dslBuilders[b].kind = "then"
          /\ DslCommit(EffectBuilderElse(DslHeap, b))
    /\ UNCHANGED <<evVars, trVars, grVars, formVars>>

\* builder.toRules() on any builder made so far
DslToRules ==
    /\ \E b \in 1..Len(dslBuilders) : dslRules' = ToRules(dslBuilders[b])
    /\ UNCHANGED <<dslArrays, dslBuilders>>
    /\ UNCHANGED <<evVars, trVars, grVars, formVars>>

DslNext == DslWhen \/ DslEffect \/ DslWithPriority \/ DslElse \/ DslToRules

-----------------------------------------------------------------------------
(* Properties of the DSL *)

\* the two patches evaluateConditions returns
Patches(vals, rules) ==
    LET out == evaluateConditions(vals, rules)
    IN  [desiredValues |-> out.desiredValues, meta |-> out.meta]

\* the last toRules() call was made on an ElseEffectBuilder
FromElseBuilder ==
    \E b \in 1..Len(dslBuilders) :
        dslBuilders[b].kind = "else" /\ dslRules = ToRules(dslBuilders[b])

\* C9: the rule list an else-builder returns from toRules() has exactly two
\* rules, and on every input value map exactly one of their predicates is true,
\* so then-effects and else-effects are never both applied.
C9_ElseBranching ==
    FromElseBuilder
        => /\ Len(dslRules) = 2
           /\ \A vals \in DslValueMaps :
                 RuleFires(dslRules[1], vals) # RuleFires(dslRules[2], vals)
           /\ \A vals \in DslValueMaps :
                 LET out == Patches(vals, RulesNow(dslRules, dslArrays))
                     thenOnly == Patches(vals, RulesNow(<<dslRules[1]>>, dslArrays))
                     elseOnly == Patches(vals, RulesNow(<<dslRules[2]>>, dslArrays))
                 IN  \/ (out = thenOnly /\ ~RuleFires(dslRules[2], vals))
                     \/ (out = elseOnly /\ ~RuleFires(dslRules[1], vals))

\* toRules() has returned the rules of when(P).show(A).else().show(B)
C9_Witness ==
    /\ FromElseBuilder
    /\ Len(dslRules) = 2
    /\ dslArrays[dslRules[1].effects] = <<Effect("show", FieldA)>>
    /\ dslArrays[dslRules[2].effects] = <<Effect("show", FieldB)>>

\* C10: an effect-appending method called on any builder, else-builders
\* included, returns a new builder and changes neither the rules any earlier
\* builder yields from toRules() nor the effects of rules already returned.
C10_BuilderPersistence ==
    [][\A b \in 1..Len(dslBuilders) : \A call \in DslCalls :
        DslEffectOn(b, call) =>
            /\ BuilderAppend(DslHeap, b, MethodEffect(call)).ret \notin 1..Len(dslBuilders)
            /\ \A e \in 1..Len(dslBuilders) :
                  RulesNow(ToRules(dslBuilders[e]), dslArrays)
                      = RulesNow(ToRules(dslBuilders'[e]), dslArrays')
            /\ RulesNow(dslRules, dslArrays) = RulesNow(dslRules', dslArrays')]_vars

-----------------------------------------------------------------------------
(* Maps whose key order the program never reads (store.errors, store.meta, *)
(* store.validators, lastValidatedValue, the listener maps, childrenMap):  *)
(* functions on the keys present.                                          *)

EmptyMap == <<>>

MapHas(m, key) == key \in DOMAIN m

MapPut(m, key, val) ==
    [x \in (DOMAIN m) \cup {key} |-> IF x = key THEN val ELSE m[x]]

MapDel(m, key) ==
    IF (DOMAIN m) \ {key} = {} THEN EmptyMap
    ELSE [x \in (DOMAIN m) \ {key} |-> m[x]]

\* null, the value of a field without an error
JSNull == [t |-> "null", n |-> 0, s |-> ""]

\* { visible: true, enabled: true, validate: true }
MetaDefault == [visible |-> JSTrue, enabled |-> JSTrue, validate |-> JSTrue]

\* { ...base, ...patch }
MergeMeta(base, patch) ==
    [visible  |-> IF patch.visible.t  # "undef" THEN patch.visible  ELSE base.visible,
     enabled  |-> IF patch.enabled.t  # "undef" THEN patch.enabled  ELSE base.enabled,
     validate |-> IF patch.validate.t # "undef" THEN patch.validate ELSE base.validate]

-----------------------------------------------------------------------------
(* The form store and its notifier (ndc-form).  Every operation is a       *)
(* function of the world W = [store, notifier, bridge, handles, spent,     *)
(* inflight, wrote] and the running handler's logs (notes, writes, events, *)
(* check, promise, console, walks): JavaScript runs a handler to           *)
(* completion, so an action of the model is a handler applied to the world.*)
(*   store    : values (ordered), errors, meta, validators, pending,       *)
(*              lastValidatedValue                                          *)
(*   notifier : value / error / meta map a field to the identity of its    *)
(*              listener Set, sets gives each Set's members, global is     *)
(*              globalListeners                                             *)
(*   notes    : how often each observer was called by the running handler  *)
(*   writes   : the guarded meta writes the running handler made           *)
(*   wrote    : the last guarded meta write, if meta was not written since *)

\* createFormStore(): the store without its notifier
NewStore ==
    [values |-> EmptyObj, errors |-> EmptyMap, meta |-> EmptyMap,
     validators |-> EmptyMap, pending |-> {}, lastValidatedValue |-> EmptyMap]

\* createNotifier()
NewNotifier ==
    [value |-> EmptyMap, error |-> EmptyMap, meta |-> EmptyMap,
     global |-> {}, sets |-> EmptyMap]

\* the listeners that stand for subscribers outside the bridge
Observers == {"valueObs", "metaObs", "globalObs"}

NoNotes == [o \in Observers |-> 0]

NoWrite == [name |-> <<>>, patch |-> NoPatch]

\* a step of run() as the handler's log keeps it: "start" (running = true),
\* "end" (running = false), "throw" (the call left by an exception) and
\* "refused" (if (running) return)
PassEvent(e) == [e |-> e, running |-> FALSE, queued |-> FALSE]

\* a call of scheduleRun as the handler's log keeps it
Trigger(W) ==
    [e |-> "trigger", running |-> W.bridge.running, queued |-> ~W.bridge.scheduled]

\* scheduleRun with a microtask queued by every call
scheduleRunUnguarded(W) ==
    [W EXCEPT !.bridge.scheduled = TRUE, !.bridge.microtasks = @ + 1,
              !.events = Append(@, Trigger(W))]

\* scheduleRun: if (scheduled) return; scheduled = true; queueMicrotask(...)
scheduleRun(W) ==
    IF W.bridge.scheduled THEN [W EXCEPT !.events = Append(@, Trigger(W))]
    ELSE [W EXCEPT !.bridge.scheduled = TRUE, !.bridge.microtasks = @ + 1,
                   !.events = Append(@, Trigger(W))]

\* fn(): the bridge's listener is scheduleRun, an observer counts the call
CallListener(fn, W) ==
    IF fn = "scheduleRun" THEN scheduleRun(W)
    ELSE [W EXCEPT !.notes[fn] = @ + 1]

\* set.forEach((fn) => fn())
RECURSIVE Emit(_, _)
Emit(set, W) ==
    IF set = {} THEN W
    ELSE LET fn == CHOOSE f \in set : TRUE
         IN  Emit(set \ {fn}, CallListener(fn, W))

\* map.get(name), as the members of the Set or {} for undefined
ListenersOf(map, name, W) ==
    IF MapHas(W.notifier[map], name)
    THEN W.notifier.sets[W.notifier[map][name]]
    ELSE {}

\* map.get(name)?.forEach((fn) => fn())
EmitFor(map, name, W) == Emit(ListenersOf(map, name, W), W)

\* globalListeners.forEach((fn) => fn())
EmitGlobal(W) == Emit(W.notifier.global, W)

notifyValue(name, W) == EmitGlobal(EmitFor("value", name, W))

notifyError(name, W) ==
    EmitGlobal(EmitFor("error", name, [W EXCEPT !.check.errorNotes = @ + 1]))

notifyMeta(name, W) == EmitGlobal(EmitFor("meta", name, W))

RECURSIVE NotifyKeys(_, _)
NotifyKeys(keys, W) ==
    IF keys = {} THEN W
    ELSE LET k == CHOOSE x \in keys : TRUE
         IN  NotifyKeys(keys \ {k}, EmitFor("error", k, EmitFor("value", k, W)))

\* notifyAll(store.values, store.errors)
notifyAll(W) ==
    EmitGlobal(NotifyKeys(KeySet(W.store.values) \cup DOMAIN W.store.errors, W))

\* the identity of a new Set: the least one not in use
NewSetId(W) ==
    CHOOSE n \in 1..(Cardinality(DOMAIN W.notifier.sets) + 1) :
        n \notin DOMAIN W.notifier.sets

\* subscribe(map)(name, fn): the world after it and the handle it returns,
\* a closure over the Set it added to
subscribe(map, name, fn, W) ==
    LET sid == IF MapHas(W.notifier[map], name) THEN W.notifier[map][name]
               ELSE NewSetId(W)
        old == IF MapHas(W.notifier.sets, sid) THEN W.notifier.sets[sid] ELSE {}
    IN  [world  |-> [W EXCEPT !.notifier.sets = MapPut(@, sid, old \cup {fn}),
                              !.notifier[map] = MapPut(@, name, sid)],
         handle |-> [map |-> map, name |-> name, sid |-> sid, fn |-> fn]]

\* subscribeGlobal(fn)
subscribeGlobal(fn, W) ==
    [world  |-> [W EXCEPT !.notifier.global = @ \cup {fn}],
     handle |-> [map |-> "global", name |-> <<>>, sid |-> 0, fn |-> fn]]

\* calling a handle: set.delete(fn); if (set.size === 0) map.delete(name)
release(h, W) ==
    IF h.map = "global"
    THEN [W EXCEPT !.notifier.global = @ \ {h.fn}]
    ELSE LET left == W.notifier.sets[h.sid] \ {h.fn}
             W1   == [W EXCEPT !.notifier.sets[h.sid] = left]
         IN  IF left = {}
             THEN [W1 EXCEPT !.notifier[h.map] = MapDel(@, h.name)]
             ELSE W1

\* store.errors[key], undefined when the key is absent
ErrorOf(W, key) ==
    IF MapHas(W.store.errors, key) THEN W.store.errors[key] ELSE Undefined

\* api.register(name, initialValue)
register(key, initialValue, W) ==
    IF Has(W.store.values, key) THEN W
    ELSE LET W1 == [W EXCEPT
                      !.store.values = Put(@, key, initialValue),
                      !.store.errors = IF ErrorOf(W, key).t = "str" THEN @
                                       ELSE MapPut(@, key, JSNull),
                      !.store.meta   = IF MapHas(@, key) THEN @
                                       ELSE MapPut(@, key, MetaDefault),
                      !.wrote        = IF MapHas(W.store.meta, key) THEN @ ELSE NoWrite]
         IN  notifyMeta(key, notifyError(key, notifyValue(key, W1)))

\* api.unregister(name)
unregister(key, W) ==
    LET changed == \/ Has(W.store.values, key)
                   \/ MapHas(W.store.errors, key)
                   \/ MapHas(W.store.meta, key)
        Notify(W1) == IF changed THEN notifyAll(W1) ELSE W1
    IN  Notify([W EXCEPT
                 !.store.values = Del(@, key),
                 !.store.errors = MapDel(@, key),
                 !.store.meta   = MapDel(@, key),
                 !.store.validators = MapDel(@, key),
                 !.store.pending = @ \ {key},
                 !.store.lastValidatedValue = MapDel(@, key),
                 !.notifier.value = MapDel(@, key),
                 !.notifier.error = MapDel(@, key),
                 !.notifier.meta  = MapDel(@, key),
                 !.wrote = IF MapHas(W.store.meta, key) THEN NoWrite ELSE @])

\* the promises in flight, with the ones of the field marked: setValue was
\* called on the field after their dispatch
Overtaken(promises, key) ==
    [i \in 1..Len(promises) |->
        IF promises[i].key = key THEN [promises[i] EXCEPT !.overtaken = TRUE]
        ELSE promises[i]]

\* api.setValue(name, value)
setValue(key, value, W) ==
    LET ClearError(W1) ==
            IF Truthy(ErrorOf(W1, key))
            THEN notifyError(key, [W1 EXCEPT !.store.errors = MapPut(@, key, JSNull)])
            ELSE W1
    IN  notifyValue(key,
            ClearError([W EXCEPT !.store.values = Put(@, key, value),
                                 !.store.lastValidatedValue = MapDel(@, key),
                                 !.inflight = Overtaken(@, key)]))

\* { ...store.values, ...nextValues }
RECURSIVE Spread(_, _, _)
Spread(o, next, i) ==
    IF i > Len(next) THEN o
    ELSE Spread(Put(o, next[i].k, next[i].v), next, i + 1)

\* api.reset(nextValues): arg.given tells whether nextValues was passed
reset(arg, W) ==
    notifyAll([W EXCEPT
                 !.store.errors = EmptyMap,
                 !.store.values = IF arg.given THEN Spread(@, arg.values, 1)
                                  ELSE EmptyObj,
                 !.store.pending = {},
                 !.store.lastValidatedValue = EmptyMap])

\* metaApi.setMeta(name, next)
setMetaMerged(name, prev, merged, W) ==
    LET Stored(W0) == [W0 EXCEPT !.store.meta = MapPut(@, name, merged)]
        BecameValidatable(W1) ==
            IF /\ (prev.visible = JSFalse \/ prev.validate = JSFalse)
               /\ merged.visible = JSTrue
               /\ merged.validate = JSTrue
            THEN [W1 EXCEPT !.store.lastValidatedValue = MapDel(@, name)]
            ELSE W1
        ClearError(W3) ==
            IF ErrorOf(W3, name) # JSNull
            THEN notifyError(name, [W3 EXCEPT !.store.errors = MapPut(@, name, JSNull)])
            ELSE W3
        NotValidatable(W2) ==
            IF merged.visible = JSFalse \/ merged.validate = JSFalse
            THEN ClearError([W2 EXCEPT !.store.pending = @ \ {name},
                                       !.store.lastValidatedValue = MapDel(@, name)])
            ELSE W2
        Changed(W4) ==
            IF \/ prev.visible # merged.visible
               \/ prev.enabled # merged.enabled
               \/ prev.validate # merged.validate
            THEN notifyMeta(name, W4)
            ELSE W4
    IN  Changed(NotValidatable(BecameValidatable(Stored(W))))

setMeta(name, next, W) ==
    LET Merged(prev) == setMetaMerged(name, prev, MergeMeta(prev, next), W)
    IN  Merged(IF MapHas(W.store.meta, name) THEN W.store.meta[name] ELSE MetaDefault)

\* api.setValidators(name, validators)
setValidators(key, validators, W) ==
    [W EXCEPT !.store.validators = MapPut(@, key, validators),
              !.store.lastValidatedValue = MapDel(@, key)]

\* isEffectivelyValidatable looking at the meta of the field itself only
isValidatableItself(path, n, meta) ==
    \/ ~MapHas(meta, path)
    \/ (meta[path].visible # JSFalse /\ meta[path].validate # JSFalse)

\* isEffectivelyValidatable(path, meta), from the n-th dotted prefix on
RECURSIVE isEffectivelyValidatable(_, _, _)
isEffectivelyValidatable(path, n, meta) ==
    IF n > Len(path) THEN TRUE
    ELSE IF /\ MapHas(meta, SubSeq(path, 1, n))
            /\ \/ meta[SubSeq(path, 1, n)].visible = JSFalse
               \/ meta[SubSeq(path, 1, n)].validate = JSFalse
         THEN FALSE
         ELSE isEffectivelyValidatable(path, n + 1, meta)

\* the validators of the form author: what a call returns, or what the
\* promise it returns resolves with
IsAsync(validator) == validator = "asyncRequired"

\* (value) => (!value ? "Required" : null), returned or resolved, and the
\* cross-field (value, values) => (value !== values.x ? "Mismatch" : null)
ValidatorMessage(validator, value, values) ==
    IF validator = "matchesX"
    THEN IF value # Get(values, <<"x">>) THEN Str("Mismatch") ELSE JSNull
    ELSE IF ~Truthy(value) THEN Str("Required") ELSE JSNull

\* store.validation.lastValidatedValue[key]
LastValidated(W, key) ==
    IF MapHas(W.store.lastValidatedValue, key) THEN W.store.lastValidatedValue[key]
    ELSE Undefined

\* store.errors[key] ?? null
ErrorOrNull(W, key) == IF ErrorOf(W, key) = Undefined THEN JSNull ELSE ErrorOf(W, key)

\* if (store.errors[key] !== next) { store.errors[key] = next; notifyError(key) }
setError(key, next, W) ==
    IF ErrorOf(W, key) # next
    THEN notifyError(key, [W EXCEPT !.store.errors = MapPut(@, key, next)])
    ELSE W

Return(ret, W) == [W EXCEPT !.check.ret = ret]

\* validateField: for (const rule of rules) { ... } and what follows the loop
RECURSIVE RunValidators(_, _, _, _, _)
RunValidators(key, rules, i, value, W) ==
    IF i > Len(rules) THEN Return(JSNull, setError(key, JSNull, W))
    ELSE LET Called(W1) ==
                 IF IsAsync(rules[i])
                 THEN Return(JSNull,
                          notifyError(key,
                              [W1 EXCEPT !.store.pending = @ \cup {key},
                                         !.inflight = Append(@,
                                             [key          |-> key,
                                              valueAtStart |-> value,
                                              msg          |-> ValidatorMessage(rules[i], value, W1.store.values),
                                              overtaken    |-> FALSE])]))
                 ELSE IF Truthy(ValidatorMessage(rules[i], value, W1.store.values))
                 THEN Return(ValidatorMessage(rules[i], value, W1.store.values),
                             setError(key, ValidatorMessage(rules[i], value, W1.store.values), W1))
                 ELSE RunValidators(key, rules, i + 1, value, W1)
         IN  Called([W EXCEPT !.check.calls = Append(@, rules[i])])

\* api.validateField(name)
validateField(key, W) ==
    IF ~isEffectivelyValidatable(key, 1, W.store.meta)
    THEN Return(JSNull,
             setError(key, JSNull,
                 [W EXCEPT !.store.pending = @ \ {key},
                           !.store.lastValidatedValue = MapDel(@, key)]))
    ELSE IF key \in W.store.pending
    THEN Return(ErrorOrNull(W, key), W)
    ELSE IF ~MapHas(W.store.validators, key) \/ Len(W.store.validators[key]) = 0
    THEN Return(JSNull, setError(key, JSNull, W))
    ELSE IF LastValidated(W, key) = Get(W.store.values, key)
    THEN Return(ErrorOrNull(W, key), W)
    ELSE RunValidators(key, W.store.validators[key], 1, Get(W.store.values, key),
             [W EXCEPT !.store.lastValidatedValue =
                           MapPut(@, key, Get(W.store.values, key))])

\* the callback of result.then(...), called with the promise's message
resolved(p, W) ==
    IF ~isEffectivelyValidatable(p.key, 1, W.store.meta)
    THEN [W EXCEPT !.store.pending = @ \ {p.key}]
    ELSE IF LastValidated(W, p.key) # p.valueAtStart
    THEN [W EXCEPT !.store.pending = @ \ {p.key}]
    ELSE setError(p.key, IF p.msg = Undefined THEN JSNull ELSE p.msg,
                  [W EXCEPT !.store.pending = @ \ {p.key}])

\* validateAll: for (const key of Object.keys(store.values))
\*   if (api.validateField(key)) ok = false
RECURSIVE ValidateKeys(_, _, _, _)
ValidateKeys(keys, i, ok, W) ==
    IF i > Len(keys)
    THEN Return(IF W.store.pending # {} THEN JSFalse ELSE JSBool(ok), W)
    ELSE LET Then(W1) == ValidateKeys(keys, i + 1, ok /\ ~Truthy(W1.check.ret), W1)
         IN  Then(validateField(keys[i], W))

\* api.validateAll()
validateAll(W) == ValidateKeys(Keys(W.store.values), 1, TRUE, W)

\* handleSubmit: if (api.validateAll()) onSubmit?.(store.values)
handleSubmit(W) ==
    LET Then(W1) == [W1 EXCEPT !.check.submitted = (W1.check.ret = JSTrue)]
    IN  Then(validateAll(W))


-----------------------------------------------------------------------------
(* The condition bridge (ndc-form.v1.tsx: ConditionBridge).  The bridge    *)
(* record holds the variables of the effect's closure:                      *)
(*   phase ("none", "mounted", "cleaned"), depsSet, cachedFieldKeys,        *)
(*   childrenMap, scheduled, running, the microtasks queued, and unsubs.    *)

NoBridge ==
    [phase |-> "none", depsSet |-> {}, cachedFieldKeys |-> <<>>,
     childrenMap |-> EmptyMap, scheduled |-> FALSE, running |-> FALSE,
     microtasks |-> 0, unsubs |-> {}]

\* parentPath(path): the path without its last dot segment, "" for one segment
parentPath(path) ==
    IF Len(path) <= 1 THEN <<>> ELSE SubSeq(path, 1, Len(path) - 1)

\* metaShallowEqual by object identity, which a merged copy never has
metaSameObject(a, b) == FALSE

\* metaShallowEqual(a, b)
metaShallowEqual(a, b) ==
    /\ a.visible = b.visible
    /\ a.enabled = b.enabled
    /\ a.validate = b.validate

\* Set.add on a Set kept in insertion order
SetAdd(seq, x) ==
    IF \E i \in 1..Len(seq) : seq[i] = x THEN seq ELSE Append(seq, x)

RECURSIVE SetAddAll(_, _, _)
SetAddAll(seq, xs, i) ==
    IF i > Len(xs) THEN seq ELSE SetAddAll(SetAdd(seq, xs[i]), xs, i + 1)

RECURSIVE ShowTargets(_, _, _)
ShowTargets(effects, i, acc) ==
    IF i > Len(effects) THEN acc
    ELSE ShowTargets(effects, i + 1,
                     IF effects[i].type = "show" THEN SetAdd(acc, effects[i].field)
                                                 ELSE acc)

RECURSIVE ShowControlledFrom(_, _, _)
ShowControlledFrom(rules, i, acc) ==
    IF i > Len(rules) THEN acc
    ELSE ShowControlledFrom(rules, i + 1, ShowTargets(rules[i].effects, 1, acc))

\* showControlledFields: the targets of show effects, in insertion order
showControlledFields(rules) == ShowControlledFrom(rules, 1, <<>>)

\* the proxy's get handler: if (typeof prop === 'string') reads.add(prop)
ProxyGet(reads, prop) == IF ~prop.sym THEN reads \cup {prop.key} ELSE reads

\* the reads Set after the predicate's property reads, up to its return or throw
RECURSIVE Recorded(_, _, _)
Recorded(props, i, reads) ==
    IF i > Len(props) THEN reads
    ELSE Recorded(props, i + 1, ProxyGet(reads, props[i]))

\* traceReads without the try { } catch { }: an exception of the predicate
\* leaves the call, and no Set is returned
traceReadsUncaught(pred, vals) ==
    IF PredRun(pred.fn, vals).result = Thrown
    THEN [reads |-> {}, invoked |-> 1, threw |-> TRUE]
    ELSE [reads |-> Recorded(PredRun(pred.fn, vals).reads, 1, {}),
          invoked |-> 1, threw |-> FALSE]

\* one call of traceReads(fn, values): fn(proxy) is called once inside
\* try { } catch { }, and reads is returned whatever fn did
traceReadsCall(pred, vals) ==
    [reads   |-> Recorded(PredRun(pred.fn, vals).reads, 1, {}),
     invoked |-> 1,
     threw   |-> FALSE]

\* traceReads(fn, values): the keys the predicate reads through the proxy
traceReads(pred, vals) == traceReadsCall(pred, vals).reads

\* depsSet
DepsOf(rules, vals) ==
    UNION { traceReads(rules[i].when, vals) : i \in 1..Len(rules) }

RECURSIVE BuildChildren(_, _, _)
BuildChildren(keys, i, next) ==
    IF i > Len(keys) THEN next
    ELSE LET p == parentPath(keys[i])
         IN  IF p = <<>> THEN BuildChildren(keys, i + 1, next)
             ELSE BuildChildren(keys, i + 1,
                     MapPut(next, p, IF MapHas(next, p) THEN Append(next[p], keys[i])
                                                        ELSE <<keys[i]>>))

\* rebuildChildrenMapIfNeeded that compares the number of keys only
rebuildIfLengthDiffers(W) ==
    LET keys == Keys(W.store.values)
    IN  IF Len(keys) = Len(W.bridge.cachedFieldKeys) THEN W
        ELSE [W EXCEPT !.bridge.cachedFieldKeys = keys,
                       !.bridge.childrenMap = BuildChildren(keys, 1, EmptyMap)]

\* rebuildChildrenMapIfNeeded: rebuilt unless the keys are the cached keys,
\* one by one
rebuildChildrenMapIfNeeded(W) ==
    LET keys == Keys(W.store.values)
    IN  IF keys = W.bridge.cachedFieldKeys THEN W
        ELSE [W EXCEPT !.bridge.cachedFieldKeys = keys,
                       !.bridge.childrenMap = BuildChildren(keys, 1, EmptyMap)]

\* setMetaIfChanged(name, patch)
setMetaIfChanged(name, patch, W) ==
    LET has  == MapHas(W.store.meta, name)
        skip == metaShallowEqual(
                    IF has THEN W.store.meta[name] ELSE NoPatch,
                    MergeMeta(IF has THEN W.store.meta[name]
                                     ELSE [visible |-> JSTrue, enabled |-> JSTrue,
                                           validate |-> Undefined],
                              patch))
        Written(W1) ==
            [W1 EXCEPT
               !.writes = Append(@, [name      |-> name,
                                     patch     |-> patch,
                                     repeated  |-> W.wrote = [name |-> name, patch |-> patch],
                                     called    |-> ~skip,
                                     metaObs   |-> W1.notes["metaObs"] - W.notes["metaObs"],
                                     globalObs |-> W1.notes["globalObs"] - W.notes["globalObs"]]),
               !.wrote = [name |-> name, patch |-> patch]]
    IN  Written(IF skip THEN W ELSE setMeta(name, patch, W))

HidePatch == [NoPatch EXCEPT !.visible = JSFalse, !.validate = JSFalse]

\* a shown patch that leaves validate as it is
ShowPatchVisibleOnly == [NoPatch EXCEPT !.visible = JSTrue]

ShowPatch == [NoPatch EXCEPT !.visible = JSTrue, !.validate = JSTrue]

\* the loop of walkSubtree over its stack
RECURSIVE Walk(_, _, _)
Walk(stack, patch, W) ==
    IF stack = <<>> THEN W
    ELSE LET cur  == stack[Len(stack)]
             kids == IF MapHas(W.bridge.childrenMap, cur)
                     THEN W.bridge.childrenMap[cur] ELSE <<>>
         IN  Walk(SubSeq(stack, 1, Len(stack) - 1) \o kids, patch,
                  setMetaIfChanged(cur, patch, W))

\* walkSubtree that visits the root and none of its descendants
walkRootOnly(root, patch, W) ==
    setMetaIfChanged(root, patch, rebuildChildrenMapIfNeeded(W))

\* a cascade walk as the handler's log keeps it: the index the walk uses and
\* the keys of the value map at that moment
WalkStarts(root, W) ==
    [W EXCEPT !.walks = Append(@, [root   |-> root,
                                   index  |-> W.bridge.childrenMap,
                                   keys   |-> Keys(W.store.values),
                                   before |-> W.store.meta,
                                   patch  |-> NoPatch,
                                   after  |-> EmptyMap])]

\* the walk has returned: the log keeps the patch it wrote and the meta map
\* it leaves
WalkEnds(patch, W) ==
    [W EXCEPT !.walks[Len(W.walks)].patch = patch,
              !.walks[Len(W.walks)].after = W.store.meta]

\* walkSubtree(root, (field) => setMetaIfChanged(field, patch))
walkSubtree(root, patch, W) ==
    WalkEnds(patch, Walk(<<root>>, patch,
                         WalkStarts(root, rebuildChildrenMapIfNeeded(W))))

\* run without its baseline step
BaselineSkipped(fields, i, W) == W

\* run, step 1: baseline
RECURSIVE Baseline(_, _, _)
Baseline(fields, i, W) ==
    IF i > Len(fields) THEN W
    ELSE Baseline(fields, i + 1, setMetaIfChanged(fields[i], HidePatch, W))

\* run, step 2: the meta patch of the evaluator
RECURSIVE ApplyMeta(_, _, _)
ApplyMeta(meta, i, W) ==
    IF i > Len(meta) THEN W
    ELSE ApplyMeta(meta, i + 1, setMetaIfChanged(meta[i].k, meta[i].v, W))

\* the cascade without its hidden branch: only visible roots are walked
RECURSIVE CascadeShownOnly(_, _, _)
CascadeShownOnly(roots, i, W) ==
    IF i > Len(roots) THEN W
    ELSE LET has == MapHas(W.store.meta, roots[i])
             m   == IF has THEN W.store.meta[roots[i]] ELSE NoPatch
         IN  CascadeShownOnly(roots, i + 1,
                     IF m.visible = JSTrue THEN walkSubtree(roots[i], ShowPatch, W)
                     ELSE W)

\* run, step 3: cascade
RECURSIVE Cascade(_, _, _)
Cascade(roots, i, W) ==
    IF i > Len(roots) THEN W
    ELSE LET has == MapHas(W.store.meta, roots[i])
             m   == IF has THEN W.store.meta[roots[i]] ELSE NoPatch
         IN  Cascade(roots, i + 1,
                     IF m.visible = JSFalse THEN walkSubtree(roots[i], HidePatch, W)
                     ELSE IF m.visible = JSTrue THEN walkSubtree(roots[i], ShowPatch, W)
                     ELSE W)

\* run, step 4: value effects
RECURSIVE ApplyValues(_, _, _)
ApplyValues(desired, i, W) ==
    IF i > Len(desired) THEN W
    ELSE ApplyValues(desired, i + 1,
                     IF Get(W.store.values, desired[i].k) # desired[i].v
                     THEN setValue(desired[i].k, desired[i].v, W)
                     ELSE W)

\* cascadeRoots
cascadeRoots(rules, meta) == SetAddAll(showControlledFields(rules), Keys(meta), 1)

\* run that writes the meta patch collected before the exception
runCommitPartial(rules, W) ==
    IF W.bridge.running THEN [W EXCEPT !.events = Append(@, PassEvent("refused"))]
    ELSE LET Done(W4) == [W4 EXCEPT !.bridge.running = FALSE,
                                    !.events = Append(@, PassEvent("end"))]
             Steps(out, W0) ==
                 IF out.thrown
                 THEN [ApplyMeta(out.meta, 1, W0) EXCEPT
                          !.events = Append(@, PassEvent("throw"))]
                 ELSE Done(ApplyValues(out.desiredValues, 1,
                              Cascade(cascadeRoots(rules, out.meta), 1,
                                  ApplyMeta(out.meta, 1,
                                      Baseline(showControlledFields(rules), 1, W0)))))
         IN  Steps(evaluateConditions(W.store.values, rules),
                   [W EXCEPT !.bridge.running = TRUE,
                             !.events = Append(@, PassEvent("start"))])

\* run()
run(rules, W) ==
    IF W.bridge.running THEN [W EXCEPT !.events = Append(@, PassEvent("refused"))]
    ELSE LET Done(W4) == [W4 EXCEPT !.bridge.running = FALSE,
                                    !.events = Append(@, PassEvent("end"))]
             Steps(out, W0) ==
                 IF out.thrown
                 THEN [W0 EXCEPT !.events = Append(@, PassEvent("throw"))]
                 ELSE Done(ApplyValues(out.desiredValues, 1,
                              Cascade(cascadeRoots(rules, out.meta), 1,
                                  ApplyMeta(out.meta, 1,
                                      Baseline(showControlledFields(rules), 1, W0)))))
         IN  Steps(evaluateConditions(W.store.values, rules),
                   [W EXCEPT !.bridge.running = TRUE,
                             !.events = Append(@, PassEvent("start"))])

\* the subscriptions with the global subscription kept as well
RECURSIVE SubscribeDepsAndGlobal(_, _)
SubscribeDepsAndGlobal(deps, W) ==
    LET Keep(sub) == [sub.world EXCEPT !.bridge.unsubs = @ \cup {sub.handle}]
    IN  IF deps = {} THEN Keep(subscribeGlobal("scheduleRun", W))
        ELSE LET dep == CHOOSE d \in deps : TRUE
             IN  SubscribeDepsAndGlobal(deps \ {dep},
                     Keep(subscribe("value", dep, "scheduleRun", W)))

\* for (const dep of depsSet) unsubs.push(api.subscribeValue(dep, scheduleRun))
RECURSIVE SubscribeDeps(_, _)
SubscribeDeps(deps, W) ==
    IF deps = {} THEN W
    ELSE LET dep == CHOOSE d \in deps : TRUE
             Keep(sub) == [sub.world EXCEPT !.bridge.unsubs = @ \cup {sub.handle}]
         IN  SubscribeDeps(deps \ {dep}, Keep(subscribe("value", dep, "scheduleRun", W)))

\* createDependencyGraph(): dependency -> affected and affected -> dependency;
\* a Map is kept as its entries and a Set as its members, in insertion order
createDependencyGraph == [forward |-> EmptyObj, reverse |-> EmptyObj]

\* map.get(node) ?? []: the members of the Set a graph Map holds for a node
Linked(map, node) == IF Has(map, node) THEN map[IndexOf(map, node)].v ELSE <<>>

\* linkDependency(graph, from, to)
linkDependency(graph, from, to) ==
    [forward |-> Put(graph.forward, from, SetAdd(Linked(graph.forward, from), to)),
     reverse |-> Put(graph.reverse, to, SetAdd(Linked(graph.reverse, to), from))]

\* the Set traceReads returns, in the order of the first read of each key
RECURSIVE RecordedInOrder(_, _, _)
RecordedInOrder(props, i, reads) ==
    IF i > Len(props) THEN reads
    ELSE RecordedInOrder(props, i + 1,
                         IF ~props[i].sym THEN SetAdd(reads, props[i].key) ELSE reads)

traceReadsInOrder(pred, vals) == RecordedInOrder(PredRun(pred.fn, vals).reads, 1, <<>>)

\* for (const dep of deps) linkDependency(graph, dep, eff.field)
RECURSIVE LinkDeps(_, _, _, _)
LinkDeps(graph, deps, d, to) ==
    IF d > Len(deps) THEN graph
    ELSE LinkDeps(linkDependency(graph, deps[d], to), deps, d + 1, to)

\* for (const eff of rule.effects) ...
RECURSIVE LinkEffects(_, _, _, _)
LinkEffects(graph, deps, effects, j) ==
    IF j > Len(effects) THEN graph
    ELSE LinkEffects(LinkDeps(graph, deps, 1, effects[j].field), deps, effects, j + 1)

\* for (const rule of conditions): the predicate is traced once more, on the
\* store's current values
RECURSIVE BuildGraph(_, _, _, _)
BuildGraph(rules, i, cur, graph) ==
    IF i > Len(rules) THEN graph
    ELSE BuildGraph(rules, i + 1, cur,
             LinkEffects(graph, traceReadsInOrder(rules[i].when, cur),
                         rules[i].effects, 1))

\* the closure variables of detectCycles before the first dfs call
NoSearch == [visiting |-> {}, visited |-> {}, cycles |-> <<>>, stack |-> <<>>]

\* stack.indexOf(node)
StackIndexOf(stack, node) == CHOOSE i \in 1..Len(stack) : stack[i] = node

\* dfs(node, stack): a node met while it is being visited closes a cycle,
\* which is pushed as stack.slice(idx).concat(node) (the joined string is
\* kept as the path it is built from); a node visited before is left at once
RECURSIVE dfs(_, _, _)
RECURSIVE DfsEach(_, _, _, _)
dfs(graph, node, st) ==
    IF node \in st.visiting
    THEN [st EXCEPT !.cycles =
             Append(@, SubSeq(st.stack, StackIndexOf(st.stack, node), Len(st.stack))
                          \o <<node>>)]
    ELSE IF node \in st.visited THEN st
    ELSE LET Left(st2) == [st2 EXCEPT !.stack = SubSeq(@, 1, Len(@) - 1),
                                      !.visiting = @ \ {node},
                                      !.visited = @ \cup {node}]
         IN  Left(DfsEach(graph, Linked(graph.forward, node), 1,
                          [st EXCEPT !.visiting = @ \cup {node},
                                     !.stack = Append(@, node)]))

\* for (const next of graph.forward.get(node) ?? []) dfs(next, stack)
DfsEach(graph, targets, i, st) ==
    IF i > Len(targets) THEN st
    ELSE DfsEach(graph, targets, i + 1, dfs(graph, targets[i], st))

\* for (const node of graph.forward.keys()) dfs(node, [])
RECURSIVE DfsFrom(_, _, _)
DfsFrom(graph, i, st) ==
    IF i > Len(graph.forward) THEN st
    ELSE DfsFrom(graph, i + 1, dfs(graph, graph.forward[i].k, st))

\* detectCycles(graph): the cycles array
detectCycles(graph) == DfsFrom(graph, 1, NoSearch).cycles

\* renderDependencyGraphToConsole: one group, with the edges or "(no edges)"
renderDependencyGraphToConsole(graph) ==
    [c |-> "graph",
     lines |-> { e \in KeySet(graph.forward) \X KeySet(graph.reverse) :
                   \E t \in 1..Len(Linked(graph.forward, e[1])) :
                       Linked(graph.forward, e[1])[t] = e[2] }]

\* a devtools block that asks for a pass once the graph is built
devtoolsGraphScheduling(rules, W) ==
    scheduleRun([W EXCEPT !.console =
        @ \o <<renderDependencyGraphToConsole(
                   BuildGraph(rules, 1, W.store.values, createDependencyGraph))>>])

\* the devtools block: build the graph, print it, warn about cycles; it reads
\* api.getValues() and writes to the console only
devtoolsGraph(rules, W) ==
    LET Printed(graph) ==
            <<renderDependencyGraphToConsole(graph)>>
                \o (IF detectCycles(graph) # <<>>
                    THEN <<[c |-> "cycles", lines |-> detectCycles(graph)]>>
                    ELSE <<>>)
    IN  [W EXCEPT !.console =
            @ \o Printed(BuildGraph(rules, 1, W.store.values, createDependencyGraph))]

\* the effect of ConditionBridge: precompute, devtools graph, initial run,
\* subscribe; an exception of the initial run leaves the effect before it
\* subscribes (phase "failed": no subscriptions and no cleanup function)
mountBridge(rules, devtools, W) ==
    IF Len(rules) = 0 THEN W
    ELSE LET deps == DepsOf(rules, W.store.values)
             Keep(sub) == [sub.world EXCEPT !.bridge.unsubs = {sub.handle}]
             Subscribed(W1) ==
                 IF W1.bridge.running THEN [W1 EXCEPT !.bridge.phase = "failed"]
                 ELSE IF deps = {} THEN Keep(subscribeGlobal("scheduleRun", W1))
                 ELSE SubscribeDeps(deps, W1)
             Graphed(W1) == IF devtools THEN devtoolsGraph(rules, W1) ELSE W1
         IN  Subscribed(run(rules, Graphed(
                 [W EXCEPT !.bridge = [NoBridge EXCEPT !.phase = "mounted",
                                                       !.depsSet = deps]])))

RECURSIVE ReleaseAll(_, _)
ReleaseAll(hs, W) ==
    IF hs = {} THEN W
    ELSE LET h == CHOOSE x \in hs : TRUE
         IN  ReleaseAll(hs \ {h}, release(h, W))

\* the cleanup of the effect without the calls of the handles
cleanupBridgeForget(W) ==
    [W EXCEPT !.bridge.phase = "cleaned", !.bridge.unsubs = {}]

\* the cleanup of the effect: unsubs.forEach((u) => u())
cleanupBridge(W) ==
    [ReleaseAll(W.bridge.unsubs, W) EXCEPT !.bridge.phase = "cleaned",
                                           !.bridge.unsubs = {}]

\* the queued microtask: scheduled = false; run()
microtask(rules, W) ==
    run(rules, [W EXCEPT !.bridge.scheduled = FALSE, !.bridge.microtasks = @ - 1])

-----------------------------------------------------------------------------
(* Graph harness: linkDependency called on bounded nodes, then detectCycles *)

GrNodes == << <<"a">>, <<"b">>, <<"c">> >>

GrNodeSet == { GrNodes[i] : i \in 1..Len(GrNodes) }

NoCycles == [called |-> FALSE, cycles |-> <<>>]

\* the edges of a graph, as pairs
GrEdges(graph) ==
    { e \in KeySet(graph.forward) \X KeySet(graph.reverse) :
        \E t \in 1..Len(Linked(graph.forward, e[1])) :
            Linked(graph.forward, e[1])[t] = e[2] }

GrIdle ==
    /\ grGraph = createDependencyGraph
    /\ grCycles = NoCycles

\* one call of linkDependency(graph, from, to)
GrLink ==
    /\ ~grCycles.called
    /\ Cardinality(GrEdges(grGraph)) < MaxLinks
    /\ \E from \in GrNodeSet, to \in GrNodeSet :
          grGraph' = linkDependency(grGraph, from, to)
    /\ UNCHANGED <<grCycles, evVars, dslVars, trVars, formVars>>

\* one call of detectCycles(graph)
GrDetect ==
    /\ ~grCycles.called
    /\ grCycles' = [called |-> TRUE, cycles |-> detectCycles(grGraph)]
    /\ UNCHANGED <<grGraph, evVars, dslVars, trVars, formVars>>

GrNext == GrLink \/ GrDetect

-----------------------------------------------------------------------------
(* Tracing harness: traceReads called on bounded inputs *)

TrFns == {"always", "xIs1", "xAndY", "xFixedIs1", "qLength", "symThenX"}

TrWraps == { <<>>, <<"Boolean">>, <<"Boolean", "not">> }

TrPreds == { [fn |-> f, wrap |-> w] : f \in TrFns, w \in TrWraps }

\* the entries a value map may hold for one key: none, or one of the values
Entries(key, vs) == {<<>>} \cup { <<[k |-> key, v |-> x]>> : x \in vs }

TrValueMaps ==
    { ex \o ey \o eq : ex \in Entries(<<"x">>, {Num(1), Str("bad")}),
                       ey \in Entries(<<"y">>, {Num(1)}),
                       eq \in Entries(<<"q">>, {Str(""), Str("s")}) }

NoTrace == [reads |-> {}, invoked |-> 0, threw |-> FALSE, called |-> FALSE]

\* the tracing harness, not in use
TrIdle ==
    /\ trFn = RawPred("")
    /\ trValues = EmptyObj
    /\ trOut = NoTrace

TrInputs ==
    /\ trFn \in TrPreds
    /\ trValues \in TrValueMaps
    /\ trOut = NoTrace

\* one call of traceReads(trFn, trValues)
TraceCall ==
    /\ ~trOut.called
    /\ LET Returned(out) == [reads |-> out.reads, invoked |-> out.invoked,
                             threw |-> out.threw, called |-> TRUE]
       IN  trOut' = Returned(traceReadsCall(trFn, trValues))
    /\ UNCHANGED <<trFn, trValues, evVars, dslVars, grVars, formVars>>

\* the string keys the predicate read from the map in one run on trValues
StringKeysRead ==
    { PredRun(trFn.fn, trValues).reads[i].key :
        i \in { j \in 1..Len(PredRun(trFn.fn, trValues).reads) :
                  ~PredRun(trFn.fn, trValues).reads[j].sym } }

\* C19: traceReads(predicate, values) invokes the predicate once and returns
\* exactly the string keys the predicate read from the value map, present in
\* the map or not; an exception of the predicate is not propagated and the
\* keys read before it are returned.
C19_TraceReads ==
    trOut.called =>
        /\ trOut.invoked = 1
        /\ ~trOut.threw
        /\ trOut.reads = StringKeysRead

\* a call on a predicate that read a key the map does not hold and then threw
C19_Witness ==
    /\ trOut.called
    /\ PredRun(trFn.fn, trValues).result = Thrown
    /\ trOut.reads = {<<"q">>}
    /\ ~Has(trValues, <<"q">>)

-----------------------------------------------------------------------------
(* Forms: the rule set handed to the bridge, the fields the form's         *)
(* components register with their initial values, the values the user      *)
(* types, and the subscriptions of components outside the bridge.          *)

Field(k, v) == [k |-> k, v |-> v]

\* the README's conditional form: state for the US, province for Canada
CountryRules ==
    << Rule(whenFnOf("countryIsUS"),
            <<Effect("show", <<"state">>), Effect("hide", <<"province">>)>>, Undefined),
       Rule(whenFnOf("countryIsCA"),
            <<Effect("show", <<"province">>), Effect("hide", <<"state">>)>>, Undefined) >>

CountryForm ==
    [name       |-> "country",
     conditions |-> CountryRules,
     fields     |-> << Field(<<"country">>, Str("")), Field(<<"state">>, Str("")),
                       Field(<<"province">>, Str("")) >>,
     starts     |-> {1},
     inputs     |-> { Field(<<"country">>, Str(c)) : c \in {"US", "CA", "FR"} },
     observers  |-> {},
     validators |-> EmptyMap,
     validate   |-> {},
     resets     |-> {}]

\* a section a with nested fields: a is hidden when x is 1, a.b is shown
\* when x is 2, a.b.c is hidden and a is enabled when x is 3
NestedRules ==
    << Rule(whenFnOf("xIs1"), <<Effect("hide", <<"a">>)>>, Undefined),
       Rule(whenFnOf("xIs2"), <<Effect("show", <<"a", "b">>)>>, Undefined),
       Rule(whenFnOf("xIs3"),
            <<Effect("hide", <<"a", "b", "c">>), Effect("enable", <<"a">>)>>,
            Undefined) >>

NestedForm ==
    [name       |-> "nested",
     conditions |-> NestedRules,
     fields     |-> << Field(<<"a">>, Str("")), Field(<<"a", "b">>, Str("")),
                       Field(<<"a", "b", "c">>, Str("")), Field(<<"x">>, Num(0)) >>,
     starts     |-> {4},
     inputs     |-> { Field(<<"x">>, Num(n)) : n \in {1, 2, 3} },
     observers  |-> { [map |-> "meta", name |-> <<"a", "b">>, fn |-> "metaObs"],
                      [map |-> "global", name |-> <<>>, fn |-> "globalObs"] },
     validators |-> EmptyMap,
     validate   |-> {},
     resets     |-> {}]

\* a rule whose predicate reads x only, and an unrelated field y
ScopeRules ==
    << Rule(whenFnOf("xIs1"), <<Effect("disable", <<"y">>)>>, Undefined) >>

ScopeForm ==
    [name       |-> "scope",
     conditions |-> ScopeRules,
     fields     |-> << Field(<<"x">>, Num(0)), Field(<<"y">>, Num(0)) >>,
     starts     |-> {0, 2},
     inputs     |-> { Field(<<"x">>, Num(1)), Field(<<"x">>, Num(2)),
                      Field(<<"y">>, Num(1)) },
     observers  |-> { [map |-> "value", name |-> <<"x">>, fn |-> "valueObs"] },
     validators |-> EmptyMap,
     validate   |-> {},
     resets     |-> {}]

\* a rule whose predicate reads nothing (the bridge falls back to the global
\* subscription), with a set effect and a hidden section whose field a.b.c may
\* be registered without a.b
GlobalRules ==
    << Rule(whenFnOf("always"),
            <<SetLit(<<"x">>, Num(2)), Effect("hide", <<"a">>)>>, Undefined) >>

GlobalForm ==
    [name       |-> "global",
     conditions |-> GlobalRules,
     fields     |-> << Field(<<"x">>, Num(2)), Field(<<"a">>, Str("")),
                       Field(<<"a", "b", "c">>, Str("")), Field(<<"a", "b">>, Str("")) >>,
     starts     |-> {2},
     inputs     |-> { Field(<<"x">>, Num(1)) },
     observers  |-> {},
     validators |-> EmptyMap,
     validate   |-> {},
     resets     |-> { [given |-> FALSE, values |-> EmptyObj],
                      [given |-> TRUE, values |-> <<Field(<<"a", "b">>, Str(""))>>] }]

\* a predicate and a value function that throw on a value that is not a number
FragileRules ==
    << Rule(whenFnOf("xFixedIs1"), <<Effect("disable", <<"y">>)>>, Undefined),
       Rule(whenFnOf("xIs2"),
            <<Effect("disable", <<"z">>), SetFn(<<"z">>, "yFixed")>>, Undefined) >>

FragileForm ==
    [name       |-> "fragile",
     conditions |-> FragileRules,
     fields     |-> << Field(<<"x">>, Num(0)), Field(<<"y">>, Num(0)),
                       Field(<<"z">>, Str("")) >>,
     starts     |-> {3},
     inputs     |-> { Field(<<"x">>, Str("bad")), Field(<<"x">>, Num(1)),
                      Field(<<"x">>, Num(2)), Field(<<"y">>, Str("bad")) },
     observers  |-> { [map |-> "global", name |-> <<>>, fn |-> "globalObs"] },
     validators |-> [k \in {<<"y">>} |-> <<"matchesX">>],
     validate   |-> {},
     resets     |-> {}]

\* a section a that a rule hides and another shows, with a required field
\* and a nested field checked by an async validator
CheckedRules ==
    << Rule(whenFnOf("xIs1"), <<Effect("hide", <<"a">>)>>, Undefined),
       Rule(whenFnOf("xIs2"), <<Effect("show", <<"a">>)>>, Undefined) >>

CheckedForm ==
    [name       |-> "checked",
     conditions |-> CheckedRules,
     fields     |-> << Field(<<"x">>, Num(2)), Field(<<"a">>, Undefined),
                       Field(<<"a", "b">>, Str("")) >>,
     starts     |-> {2, 3},
     inputs     |-> { Field(<<"x">>, Num(1)), Field(<<"a">>, Str("")),
                      Field(<<"a", "b">>, Str("v")),
                      Field(<<"a", "b">>, Undefined) },
     observers  |-> {},
     validators |-> [k \in {<<"a">>, <<"a", "b">>} |->
                        IF k = <<"a">> THEN <<"required">> ELSE <<"asyncRequired">>],
     validate   |-> {<<"a">>, <<"a", "b">>},
     resets     |-> {}]

\* a predicate that reads y only once x is 1, and a field x that registers
\* after the bridge has mounted
LazyRules ==
    << Rule(whenFnOf("xAndY"), <<Effect("disable", <<"z">>)>>, Undefined) >>

LazyForm ==
    [name       |-> "lazy",
     conditions |-> LazyRules,
     fields     |-> << Field(<<"y">>, Num(0)), Field(<<"z">>, Str("")),
                       Field(<<"x">>, Num(1)) >>,
     starts     |-> {2},
     inputs     |-> { Field(<<"y">>, Num(1)) },
     observers  |-> {},
     validators |-> EmptyMap,
     validate   |-> {},
     resets     |-> {}]

\* a rule that writes the field its own predicate and the next rule's read
SelfRules ==
    << Rule(whenFnOf("xIs1"), <<SetLit(<<"x">>, Num(2))>>, Undefined),
       Rule(whenFnOf("xIs2"), <<Effect("disable", <<"y">>)>>, Undefined) >>

SelfForm ==
    [name       |-> "self",
     conditions |-> SelfRules,
     fields     |-> << Field(<<"x">>, Num(1)), Field(<<"y">>, Str("")) >>,
     starts     |-> {2},
     inputs     |-> { Field(<<"x">>, Num(1)), Field(<<"x">>, Num(3)) },
     observers  |-> {},
     validators |-> EmptyMap,
     validate   |-> {},
     resets     |-> {}]

Forms ==
    {CountryForm, NestedForm, ScopeForm, GlobalForm, FragileForm, CheckedForm,
     LazyForm, SelfForm}

\* a constant predicate (the bridge falls back to the global subscription)
\* that shows a field: when(() => true).show("s")
ShowAlwaysRules ==
    << Rule(whenFnOf("always"), <<Effect("show", <<"s">>)>>, Undefined) >>

ShowAlwaysForm ==
    [name       |-> "showAlways",
     conditions |-> ShowAlwaysRules,
     fields     |-> << Field(<<"s">>, Str("")), Field(<<"x">>, Num(0)) >>,
     starts     |-> {2},
     inputs     |-> { Field(<<"x">>, Num(1)), Field(<<"x">>, Num(2)) },
     observers  |-> {},
     validators |-> EmptyMap,
     validate   |-> {},
     resets     |-> {}]

\* the forms whose rules have no set and no clear effect, in both
\* subscription modes
QuietForms == {CountryForm, ScopeForm, ShowAlwaysForm}

NoForm ==
    [name |-> "", conditions |-> <<>>, fields |-> <<>>, starts |-> {},
     inputs |-> {}, observers |-> {}, validators |-> EmptyMap, validate |-> {},
     resets |-> {}]

\* what a handler's log keeps of validation: what validateField returned, the
\* validators it called, and the calls of notifyError
NoCheck == [ret |-> Undefined, calls |-> <<>>, errorNotes |-> 0, submitted |-> FALSE]

NoLast ==
    [op |-> "", key |-> <<>>, writes |-> <<>>, notes |-> NoNotes, events |-> <<>>,
     check |-> NoCheck, promise |-> <<>>, console |-> <<>>, walks |-> <<>>]

\* the world of a form just constructed
NewWorld ==
    [store |-> NewStore, notifier |-> NewNotifier, bridge |-> NoBridge,
     handles |-> {}, spent |-> {}, notes |-> NoNotes, writes |-> <<>>,
     wrote |-> NoWrite,
     events |-> <<>>, check |-> NoCheck, inflight |-> <<>>, promise |-> <<>>,
     console |-> <<>>, walks |-> <<>>]

\* the effect of useFormField for the i-th field of the form:
\* api.register(name, initialValue); if (validators) api.setValidators(...)
fieldEffect(f, i, W) ==
    IF MapHas(f.validators, f.fields[i].k)
    THEN setValidators(f.fields[i].k, f.validators[f.fields[i].k],
                       register(f.fields[i].k, f.fields[i].v, W))
    ELSE register(f.fields[i].k, f.fields[i].v, W)

\* the world after the first n fields of the form have registered
RECURSIVE RegisterFirst(_, _, _)
RegisterFirst(f, n, W) ==
    IF n = 0 THEN W
    ELSE fieldEffect(f, n, RegisterFirst(f, n - 1, W))

\* the world the next handler starts in
World ==
    [store |-> store, notifier |-> notifier, bridge |-> bridge,
     handles |-> handles, spent |-> spent, notes |-> NoNotes, writes |-> <<>>,
     wrote |-> wrote,
     events |-> <<>>, check |-> NoCheck, inflight |-> inflight, promise |-> <<>>,
     console |-> <<>>, walks |-> <<>>]

\* the listener Sets some map entry or some handle still refers to
SetsInUse(W) ==
    { W.notifier.value[k] : k \in DOMAIN W.notifier.value }
        \cup { W.notifier.error[k] : k \in DOMAIN W.notifier.error }
        \cup { W.notifier.meta[k] : k \in DOMAIN W.notifier.meta }
        \cup { h.sid : h \in W.bridge.unsubs \cup W.handles \cup W.spent }

\* the handler has run to completion: the world becomes the state, without
\* the Sets nothing refers to any more
Commit(W, op, key) ==
    /\ store' = W.store
    /\ notifier' = [W.notifier EXCEPT
                      !.sets = IF (DOMAIN @) \cap SetsInUse(W) = {} THEN EmptyMap
                               ELSE [s \in (DOMAIN @) \cap SetsInUse(W) |-> @[s]]]
    /\ bridge' = W.bridge
    /\ handles' = W.handles
    /\ spent' = W.spent
    /\ wrote' = W.wrote
    /\ inflight' = W.inflight
    /\ last' = [op |-> op, key |-> key, writes |-> W.writes, notes |-> W.notes,
                events |-> W.events, check |-> W.check, promise |-> W.promise,
                console |-> W.console, walks |-> W.walks]
    /\ UNCHANGED form

FormIdle ==
    /\ form = NoForm
    /\ store = NewStore
    /\ notifier = NewNotifier
    /\ bridge = NoBridge
    /\ handles = {}
    /\ spent = {}
    /\ wrote = NoWrite
    /\ last = NoLast
    /\ inflight = <<>>
    /\ opsLeft = 0
    /\ checksLeft = 0
    /\ beat = 0

StartOf(forms) ==
    /\ form \in forms
    /\ \E n \in form.starts :
          /\ store = RegisterFirst(form, n, NewWorld).store
          /\ notifier = NewNotifier
    /\ bridge = NoBridge
    /\ handles = {}
    /\ spent = {}
    /\ wrote = NoWrite
    /\ last = NoLast
    /\ inflight = <<>>
    /\ opsLeft = MaxOps
    /\ checksLeft = MaxChecks
    /\ beat = 0

FormStart == StartOf(Forms)

\* a field component mounts: the effect of useFormField
Register ==
    /\ opsLeft > 0
    /\ \E i \in 1..Len(form.fields) :
          /\ ~Has(store.values, form.fields[i].k)
          /\ Commit(fieldEffect(form, i, World), "register", form.fields[i].k)
    /\ opsLeft' = opsLeft - 1
    /\ UNCHANGED <<checksLeft, evVars, dslVars, trVars, grVars, beat>>

\* a field component unmounts: api.unregister(name)
Unregister ==
    /\ opsLeft > 0
    /\ \E i \in 1..Len(form.fields) :
          Commit(unregister(form.fields[i].k, World), "unregister", form.fields[i].k)
    /\ opsLeft' = opsLeft - 1
    /\ UNCHANGED <<checksLeft, evVars, dslVars, trVars, grVars, beat>>

\* the user types: api.setValue(name, value)
SetValue ==
    /\ opsLeft > 0
    /\ \E inp \in form.inputs :
          Commit(setValue(inp.k, inp.v, World), "setValue", inp.k)
    /\ opsLeft' = opsLeft - 1
    /\ UNCHANGED <<checksLeft, evVars, dslVars, trVars, grVars, beat>>

\* the form is reset through its ref: api.reset(nextValues)
Reset ==
    /\ opsLeft > 0
    /\ \E arg \in form.resets : Commit(reset(arg, World), "reset", <<>>)
    /\ opsLeft' = opsLeft - 1
    /\ UNCHANGED <<checksLeft, evVars, dslVars, trVars, grVars, beat>>

\* a component outside the bridge subscribes
Observe ==
    /\ \E o \in form.observers :
          /\ \A h \in handles : h.fn # o.fn
          /\ LET Keep(sub) == [sub.world EXCEPT !.handles = @ \cup {sub.handle}]
             IN  Commit(Keep(IF o.map = "global" THEN subscribeGlobal(o.fn, World)
                             ELSE subscribe(o.map, o.name, o.fn, World)),
                        "subscribe", o.name)
    /\ UNCHANGED <<opsLeft, checksLeft, evVars, dslVars, trVars, grVars, beat>>

\* a component outside the bridge calls the handle it holds
Unobserve ==
    /\ \E h \in handles :
          Commit([release(h, World) EXCEPT
                     !.handles = @ \ {h},
                     !.spent = IF h.map = "value" THEN {h} ELSE {}],
                 "release", h.name)
    /\ UNCHANGED <<opsLeft, checksLeft, evVars, dslVars, trVars, grVars, beat>>

\* the component calls once more the handle it has called already
ReleaseAgain ==
    /\ \E h \in spent :
          Commit([release(h, World) EXCEPT !.spent = {}], "releaseAgain", h.name)
    /\ UNCHANGED <<opsLeft, checksLeft, evVars, dslVars, trVars, grVars, beat>>

\* the bridge's effect runs
Mount ==
    /\ bridge.phase = "none"
    /\ form # NoForm
    /\ \E devtools \in BOOLEAN :
          Commit(mountBridge(form.conditions, devtools, World), "mount",
                 IF devtools THEN <<"devtools">> ELSE <<>>)
    /\ UNCHANGED <<opsLeft, checksLeft, evVars, dslVars, trVars, grVars, beat>>

\* the bridge's effect is cleaned up
Unmount ==
    /\ bridge.phase = "mounted"
    /\ Commit(cleanupBridge(World), "unmount", <<>>)
    /\ UNCHANGED <<opsLeft, checksLeft, evVars, dslVars, trVars, grVars, beat>>

\* the queued microtask is taken from the queue and runs to completion
PassRuns ==
    /\ bridge.microtasks > 0
    /\ Commit(microtask(form.conditions, World), "pass", <<>>)
    /\ UNCHANGED <<opsLeft, checksLeft, evVars, dslVars, trVars, grVars>>

\* the microtask queued by scheduleRun runs
Microtask == PassRuns /\ UNCHANGED beat

\* the microtask queued by scheduleRun runs, and the queue counts it
CountedMicrotask == PassRuns /\ beat' = 1 - beat

\* the microtask queue takes a microtask whenever one is queued
Beat == bridge.microtasks > 0 /\ beat' = 1 - beat

\* a field component validates: api.validateField(name)
ValidateField ==
    /\ checksLeft > 0
    /\ \E key \in form.validate :
          Commit(validateField(key, World), "validate", key)
    /\ checksLeft' = checksLeft - 1
    /\ UNCHANGED <<opsLeft, evVars, dslVars, trVars, grVars, beat>>

\* the user submits a form that has validators: <form onSubmit={handleSubmit}>
Submit ==
    /\ checksLeft > 0
    /\ form.validators # EmptyMap
    /\ Commit(handleSubmit(World), "submit", <<>>)
    /\ checksLeft' = checksLeft - 1
    /\ UNCHANGED <<opsLeft, evVars, dslVars, trVars, grVars, beat>>

\* the promise of an async validator resolves: its then-callback runs
Resolve ==
    /\ \E i \in 1..Len(inflight) :
          Commit(resolved(inflight[i],
                          [World EXCEPT !.inflight = SubSeq(@, 1, i - 1)
                                                       \o SubSeq(@, i + 1, Len(@)),
                                        !.promise = <<inflight[i]>>]),
                 "resolve", inflight[i].key)
    /\ UNCHANGED <<opsLeft, checksLeft, evVars, dslVars, trVars, grVars, beat>>

FormNext ==
    \/ Register \/ Unregister \/ SetValue \/ Reset
    \/ Observe \/ Unobserve \/ ReleaseAgain
    \/ Mount \/ Unmount \/ Microtask
    \/ ValidateField \/ Submit \/ Resolve

-----------------------------------------------------------------------------
(* Properties of the bridge and the store *)

\* a pass of the bridge has just ended: the initial run of the effect or the
\* run of a queued microtask
PassEnded == last.op \in {"mount", "pass"}

MetaOf(f) == IF MapHas(store.meta, f) THEN store.meta[f] ELSE NoPatch

IsVisible(f) == MetaOf(f).visible = JSTrue

IsHidden(f) == MetaOf(f).visible = JSFalse

HiddenUnvalidated(f) == MetaOf(f).visible = JSFalse /\ MetaOf(f).validate = JSFalse

Registered(f) == Has(store.values, f)

\* C3: in the country form mounted on {country: ""}, every pass ends with
\* state visible and province hidden when country is "US", with province
\* visible and state hidden when country is "CA", and with both hidden for
\* any other country ("" at mount, "FR"), in whatever order the values were set.
C3_CountryScenario ==
    (form.name = "country" /\ PassEnded) =>
        LET country == Get(store.values, <<"country">>)
        IN  CASE country = Str("US") ->
                   IsVisible(<<"state">>) /\ IsHidden(<<"province">>)
              [] country = Str("CA") ->
                   IsVisible(<<"province">>) /\ IsHidden(<<"state">>)
              [] OTHER ->
                   IsHidden(<<"state">>) /\ IsHidden(<<"province">>)

\* the third value typed into the mounted country form was "CA", and the pass
\* it scheduled has run
C3_Witness ==
    /\ form.name = "country"
    /\ last.op = "pass"
    /\ opsLeft = 0
    /\ Get(store.values, <<"country">>) = Str("CA")
    /\ IsVisible(<<"province">>)
    /\ IsHidden(<<"state">>)

\* some rule that is true on the current values has a show effect on f
ShownByTrueRule(f) ==
    \E i \in 1..Len(form.conditions) :
        /\ RuleFires(form.conditions[i], store.values)
        /\ \E e \in 1..Len(form.conditions[i].effects) :
              form.conditions[i].effects[e] = Effect("show", f)

ShowControlled ==
    LET fields == showControlledFields(form.conditions)
    IN  { fields[i] : i \in 1..Len(fields) }

\* C4: at the end of every pass, every field that some show effect of the rule
\* set targets and that no currently-true rule shows has visible = false and
\* validate = false, nested field paths included.
C4_BaselineHiding ==
    PassEnded =>
        \A f \in ShowControlled : ~ShownByTrueRule(f) => HiddenUnvalidated(f)

\* the cascade roots of the pass that has just ended
RootsOfPass ==
    LET roots == cascadeRoots(form.conditions,
                              evaluateConditions(store.values, form.conditions).meta)
    IN  { roots[i] : i \in 1..Len(roots) }

SectionRegistered ==
    /\ Registered(<<"a">>)
    /\ Registered(<<"a", "b">>)
    /\ Registered(<<"a", "b", "c">>)

\* C5 as stated: with a, a.b and a.b.c registered, a pass at whose end a is
\* hidden leaves a.b and a.b.c hidden and unvalidated.
C5_CascadeAnyHidden ==
    (PassEnded /\ SectionRegistered /\ IsHidden(<<"a">>)) =>
        /\ HiddenUnvalidated(<<"a", "b">>)
        /\ HiddenUnvalidated(<<"a", "b", "c">>)

\* C5: with a, a.b and a.b.c registered, a pass that has a among its cascade
\* roots (a show target of the rule set or a key of the pass's meta patch) and
\* at whose end a is hidden leaves a.b and a.b.c with visible = false and
\* validate = false at the end of that same pass.
C5_CascadeFromRoot ==
    (PassEnded /\ SectionRegistered /\ IsHidden(<<"a">>) /\ <<"a">> \in RootsOfPass) =>
        /\ HiddenUnvalidated(<<"a", "b">>)
        /\ HiddenUnvalidated(<<"a", "b", "c">>)

\* the pass after x became 1 hid a, and with it a.b and a.b.c, which the rules
\* leave alone or show
C5_Witness ==
    /\ form.name = "nested"
    /\ last.op = "pass"
    /\ SectionRegistered
    /\ Get(store.values, <<"x">>) = Num(1)
    /\ <<"a">> \in RootsOfPass
    /\ IsHidden(<<"a">>)
    /\ HiddenUnvalidated(<<"a", "b", "c">>)
    /\ \E i \in 1..Len(last.writes) :
          /\ last.writes[i].name = <<"a", "b", "c">>
          /\ last.writes[i].called

\* C6: while the bridge of the scope form (its one predicate reads x only) is
\* mounted, a setValue of y leaves the bridge's schedule as it was and a
\* setValue of x leaves a pass scheduled, whatever was done to the store before.
C6_DependencyScoping ==
    [][(form.name = "scope" /\ bridge.phase = "mounted" /\ last'.op = "setValue") =>
          /\ last'.key = <<"y">> =>
                /\ bridge'.scheduled = bridge.scheduled
                /\ bridge'.microtasks = bridge.microtasks
          /\ last'.key = <<"x">> =>
                /\ bridge'.scheduled
                /\ bridge'.microtasks > 0]_vars

\* C7: a guarded meta write that repeats the write made just before it (same
\* field, same patch, meta not written in between) does not call setMeta and
\* calls no meta observer and no global observer.
C7_ChangeSuppression ==
    \A i \in 1..Len(last.writes) :
        last.writes[i].repeated =>
            /\ ~last.writes[i].called
            /\ last.writes[i].metaObs = 0
            /\ last.writes[i].globalObs = 0

\* with a meta observer of a.b and a global observer subscribed, a guarded
\* write to a.b called setMeta and notified both, and the same write repeated
\* right after it
C7_Witness ==
    /\ \E h \in handles : h.fn = "metaObs"
    /\ \E h \in handles : h.fn = "globalObs"
    /\ \E i \in 2..Len(last.writes) :
          /\ last.writes[i].repeated
          /\ last.writes[i].name = <<"a", "b">>
          /\ last.writes[i - 1].called
          /\ last.writes[i - 1].metaObs = 1
          /\ last.writes[i - 1].globalObs = 1

\* the passes a handler started, and the calls of scheduleRun that reached it
\* while the running flag was set
Starts(events) == { i \in 1..Len(events) : events[i].e = "start" }

TriggersWhileRunning(events) ==
    { i \in 1..Len(events) : events[i].e = "trigger" /\ events[i].running }

Triggers(events) == { i \in 1..Len(events) : events[i].e = "trigger" }

\* the handler ran one pass from its start to its end
OnePass(events) ==
    /\ Cardinality(Starts(events)) = 1
    /\ events[1].e = "start"
    /\ events[Len(events)].e = "end"

\* C13: changes that reach the bridge while no pass is running and before the
\* queued microtask fires leave one microtask queued, the microtask runs
\* exactly one pass, and there is never more than one microtask queued.
C13_Batching ==
    [][ /\ bridge'.microtasks <= 1
        /\ (last'.op \notin {"pass", "mount"} /\ Triggers(last'.events) # {})
              => (bridge'.scheduled /\ bridge'.microtasks = 1)
        /\ (last'.op = "pass" /\ bridge.phase = "mounted")
              => Cardinality(Starts(last'.events)) = 1 ]_vars

\* the scheduler's part of C13: one microtask at most, queued by the first
\* change and shared by the ones that follow
C13_OneMicrotask ==
    [][ /\ bridge'.microtasks <= 1
        /\ (last'.op \notin {"pass", "mount"} /\ Triggers(last'.events) # {})
              => (bridge'.scheduled /\ bridge'.microtasks = 1) ]_vars

\* C14: a trigger that arrives while a pass is running starts no nested pass,
\* and all triggers that arrive during one running pass cause exactly one
\* follow-up pass, which starts after the running pass has completed.
C14_Reentrancy ==
    [][ /\ last'.op \in {"pass", "mount"} => Cardinality(Starts(last'.events)) <= 1
        /\ (last'.op = "pass" /\ TriggersWhileRunning(last'.events) # {})
              => /\ OnePass(last'.events)
                 /\ ~bridge'.running
                 /\ bridge'.scheduled
                 /\ bridge'.microtasks = 1
        /\ (last.op = "pass" /\ TriggersWhileRunning(last.events) # {} /\ last'.op = "pass")
              => OnePass(last'.events) ]_vars

\* a pass during which two triggers arrived has ended with one microtask queued
C14_Witness ==
    /\ last.op = "pass"
    /\ Cardinality(TriggersWhileRunning(last.events)) >= 2
    /\ OnePass(last.events)
    /\ bridge.microtasks = 1

\* the Sets of the store's per-field value listeners
ValueListenerSets == { notifier.sets[notifier.value[k]] : k \in DOMAIN notifier.value }

\* C15: after the rule set is unmounted, the bridge's trigger callback is in no
\* per-field value listener Set and not in the global listener Set.
C15_TeardownReleases ==
    bridge.phase = "cleaned" =>
        /\ \A set \in ValueListenerSets : "scheduleRun" \notin set
        /\ "scheduleRun" \notin notifier.global

\* unmounted after three store operations, with a field subscribed to by a
\* component other than the bridge
C15_Witness ==
    /\ bridge.phase = "cleaned"
    /\ opsLeft = 0
    /\ \E h \in handles : h.map = "value" /\ MapHas(notifier.value, h.name)

\* C18: after a pass was aborted by an exception of a predicate or a value
\* function, the next pass on an input that makes nothing throw runs completely.
C18_Recovery ==
    [][ ( /\ last'.op = "pass"
          /\ bridge.phase = "mounted"
          /\ bridge.running
          /\ ~evaluateConditions(store.values, form.conditions).thrown )
        => OnePass(last'.events) ]_vars

\* the field, or an ancestor given by a dotted prefix of its path, has
\* visible = false or validate = false
HiddenOrUnvalidated(key, meta) ==
    \E n \in 1..Len(key) :
        /\ MapHas(meta, SubSeq(key, 1, n))
        /\ \/ meta[SubSeq(key, 1, n)].visible = JSFalse
           \/ meta[SubSeq(key, 1, n)].validate = JSFalse

\* C16: validateField on a field that is hidden or not validated, itself or
\* through an ancestor, calls no validator, returns null and leaves the error
\* null; an async result that resolves in that state sets no error.
C16_HiddenNeverValidated ==
    [][ /\ (last'.op = "validate" /\ HiddenOrUnvalidated(last'.key, store.meta))
              => /\ last'.check.calls = <<>>
                 /\ last'.check.ret = JSNull
                 /\ MapHas(store'.errors, last'.key)
                 /\ store'.errors[last'.key] = JSNull
        /\ (last'.op = "resolve" /\ HiddenOrUnvalidated(last'.key, store.meta))
              => /\ store'.errors = store.errors
                 /\ last'.check.errorNotes = 0 ]_vars

\* validateField has returned null on a.b, whose own meta is visible and
\* validated and whose section a is hidden
C16_Witness ==
    /\ last.op = "validate"
    /\ last.key = <<"a", "b">>
    /\ MapHas(store.meta, <<"a", "b">>)
    /\ store.meta[<<"a", "b">>].visible = JSTrue
    /\ store.meta[<<"a", "b">>].validate = JSTrue
    /\ MapHas(store.meta, <<"a">>)
    /\ store.meta[<<"a">>].visible = JSFalse
    /\ MapHas(store.validators, <<"a", "b">>)
    /\ last.check.ret = JSNull

\* an async result has resolved with a message while its field was hidden
C16_WitnessAsync ==
    /\ last.op = "resolve"
    /\ HiddenOrUnvalidated(last.key, store.meta)
    /\ last.promise[1].msg = Str("Required")
    /\ store.errors[last.key] = JSNull

\* C17: if setValue was called on the field between the dispatch of an async
\* validator and its resolution, the resolution leaves the field's error
\* unchanged and emits no error notification.
C17_StaleDiscarded ==
    [][ (last'.op = "resolve" /\ last'.promise[1].overtaken)
            => /\ store'.errors = store.errors
               /\ last'.check.errorNotes = 0 ]_vars

\* no async validator is ever dispatched with the value undefined: on such a
\* value validateField returns at lastValidatedValue[key] === value
C17_NeverDispatchedOnUndefined ==
    \A i \in 1..Len(inflight) : inflight[i].valueAtStart # Undefined

-----------------------------------------------------------------------------
(* Specifications *)

\* the evaluator called on bounded inputs
EvInit == EvInputs /\ DslIdle /\ TrIdle /\ GrIdle /\ FormIdle

EvNext == EvalCall

SpecEval == EvInit /\ [][EvNext]_vars

\* the DSL called in every order
DslInit == DslIdle /\ EvIdle /\ TrIdle /\ GrIdle /\ FormIdle

SpecDsl == DslInit /\ [][DslNext]_vars

\* traceReads called on bounded inputs
TrInit == TrInputs /\ EvIdle /\ DslIdle /\ GrIdle /\ FormIdle

TrNext == TraceCall

SpecTrace == TrInit /\ [][TrNext]_vars

\* dependency graphs linked edge by edge, then searched for cycles
GrInit == GrIdle /\ EvIdle /\ DslIdle /\ TrIdle /\ FormIdle

SpecGraph == GrInit /\ [][GrNext]_vars

\* a mounted bridge, value changes and the microtask queue.  The JavaScript
\* event loop runs every queued microtask before it does anything else: the
\* queue is weakly fair.  A step that takes a microtask is a step of
\* CountedMicrotask, the one action that changes beat.
QuietInit == StartOf(QuietForms) /\ EvIdle /\ DslIdle /\ TrIdle /\ GrIdle

QuietNext == Mount \/ SetValue \/ CountedMicrotask

SpecQuiet == QuietInit /\ [][QuietNext]_vars /\ WF_beat(Beat)

\* a form with its store and its condition bridge
Init == FormStart /\ EvIdle /\ DslIdle /\ TrIdle /\ GrIdle

Next == FormNext

Spec == Init /\ [][Next]_vars

\* what the store's users and the bridge can observe of a mount: the values,
\* the meta, the subscriptions, the bridge's scheduling and the passes it ran
SameObservable(A, B) ==
    /\ A.store = B.store
    /\ A.notifier = B.notifier
    /\ A.bridge = B.bridge
    /\ A.handles = B.handles
    /\ A.inflight = B.inflight
    /\ A.wrote = B.wrote
    /\ A.events = B.events
    /\ A.writes = B.writes
    /\ A.notes = B.notes

\* the state a mount leaves is the state W
LeavesState(W) ==
    /\ store' = W.store
    /\ bridge' = W.bridge
    /\ handles' = W.handles
    /\ inflight' = W.inflight
    /\ wrote' = W.wrote
    /\ last'.events = W.events
    /\ last'.writes = W.writes

\* C20: devtools are observationally inert: from the same form state a bridge
\* mounted with devtools on and one mounted with devtools off leave the same
\* value map, meta map, subscriptions and passes, and every mount leaves the
\* state of the mount without devtools, so the later operations agree too.
C20_DevtoolsInert ==
    [][ last'.op = "mount" =>
          /\ SameObservable(mountBridge(form.conditions, TRUE, World),
                            mountBridge(form.conditions, FALSE, World))
          /\ LeavesState(mountBridge(form.conditions, FALSE, World)) ]_vars

\* a bridge mounted with devtools on printed a graph with edges, ran its
\* initial pass and subscribed
C20_Witness ==
    /\ last.op = "mount"
    /\ last.key = <<"devtools">>
    /\ last.console # <<>>
    /\ last.console[1].lines # {}
    /\ Starts(last.events) # {}
    /\ bridge.unsubs # {}

\* the registration a handle stands for is in place in the notifier N: its
\* listener is in the Set the map holds for its path
Notified(h, N) ==
    IF h.map = "global" THEN h.fn \in N.global
    ELSE /\ MapHas(N[h.map], h.name)
         /\ h.fn \in N.sets[N[h.map][h.name]]

\* the registrations that are live: the handles held by components and by
\* the bridge that were not called
LiveHandles == handles \cup bridge.unsubs

\* C21: calling a handle, for the first or the second time, leaves every other
\* live registration that was notified before the call notified after it, and
\* a second call of the same handle changes no listener map.
C21_ReleaseExact ==
    [][ last'.op \in {"release", "releaseAgain"} =>
          /\ \A g \in LiveHandles' : Notified(g, notifier) => Notified(g, notifier')
          /\ last'.op = "releaseAgain" =>
                /\ DOMAIN notifier'.value = DOMAIN notifier.value
                /\ DOMAIN notifier'.meta = DOMAIN notifier.meta
                /\ notifier'.global = notifier.global ]_vars

\* the first call of a handle alone: while no handle is called twice, every
\* other registration that was notified stays notified
C21_FirstRelease ==
    [][ last'.op = "release" =>
          \A g \in LiveHandles' : Notified(g, notifier) => Notified(g, notifier') ]_vars

\* the second call of a handle on a store no field was registered on or
\* removed from since the form was built
C21_SecondReleaseAlone ==
    [][ (last'.op = "releaseAgain" /\ opsLeft = MaxOps) =>
          \A g \in LiveHandles' : Notified(g, notifier) => Notified(g, notifier') ]_vars

\* every validator of every effectively validatable registered field returns
\* (or resolves with) no error on the current value map
EveryValidatorPasses ==
    \A key \in KeySet(store.values) :
        (isEffectivelyValidatable(key, 1, store.meta) /\ MapHas(store.validators, key)) =>
            \A i \in 1..Len(store.validators[key]) :
                ValidatorMessage(store.validators[key][i], Get(store.values, key),
                                 store.values) = JSNull

\* C22: onSubmit is invoked only when validateAll() returned true, and then
\* every validator of every effectively validatable registered field returns
\* no error on the current value map and no async validation is pending.
C22_SubmitGating ==
    (last.op = "submit" /\ last.check.submitted) =>
        /\ last.check.ret = JSTrue
        /\ store.pending = {}
        /\ EveryValidatorPasses

\* the part of C22 the code keeps: onSubmit only after validateAll() returned
\* true, and never while an async validation is pending
C22_SubmitOnlyWhenTrueAndSettled ==
    (last.op = "submit" /\ last.check.submitted) =>
        /\ last.check.ret = JSTrue
        /\ store.pending = {}

\* onSubmit was called on a form all of whose validators pass
C22_SubmittedValid ==
    /\ last.op = "submit"
    /\ last.check.submitted
    /\ last.check.calls # <<>>
    /\ EveryValidatorPasses

\* C22 on the cross-field validator alone: onSubmit is not called while the
\* validator of y, which compares y with x, returns an error
C22_CrossField ==
    (form.name = "fragile" /\ last.op = "submit" /\ last.check.submitted) =>
        EveryValidatorPasses

\* root followed by a dot is a prefix of the path f
Under(root, f) == Len(f) > Len(root) /\ SubSeq(f, 1, Len(root)) = root

\* C23: when a cascade root is hidden at the end of a pass, every registered
\* field under it, at any depth and whether or not the paths in between are
\* registered, ends the pass with visible = false and validate = false.
C23_CascadeReachesAll ==
    PassEnded =>
        \A root \in RootsOfPass :
            IsHidden(root) =>
                \A f \in KeySet(store.values) : Under(root, f) => HiddenUnvalidated(f)

\* C23 where the hidden root is the only cascade root on the path of the
\* field, so that no other root's walk can have shown the field again
C23_SoleRootReachesAll ==
    PassEnded =>
        \A root \in RootsOfPass :
            IsHidden(root) =>
                \A f \in KeySet(store.values) :
                    ( /\ Under(root, f)
                      /\ \A r \in RootsOfPass : (r = f \/ Under(r, f)) => r = root )
                        => HiddenUnvalidated(f)

\* the same with every path between the root and the field registered: the
\* walk over the children index reaches the field
C23_ReachesThroughRegistered ==
    PassEnded =>
        \A root \in RootsOfPass :
            IsHidden(root) =>
                \A f \in KeySet(store.values) :
                    ( /\ Under(root, f)
                      /\ \A r \in RootsOfPass : (r = f \/ Under(r, f)) => r = root
                      /\ \A n \in (Len(root) + 1)..Len(f) : Registered(SubSeq(f, 1, n)) )
                        => HiddenUnvalidated(f)

\* a pass hid the root a and, through a.b, the field a.b.c two levels below
C23_ReachedTwoLevels ==
    /\ last.op = "pass"
    /\ <<"a">> \in RootsOfPass
    /\ IsHidden(<<"a">>)
    /\ Registered(<<"a", "b">>)
    /\ Registered(<<"a", "b", "c">>)
    /\ \A r \in RootsOfPass : Under(r, <<"a", "b", "c">>) => r = <<"a">>
    /\ <<"a", "b", "c">> \notin RootsOfPass
    /\ HiddenUnvalidated(<<"a", "b", "c">>)

Logged(events, e) == \E i \in 1..Len(events) : events[i].e = e

\* C25: if a predicate or a set value function throws during a pass, the
\* exception leaves the pass (it is not caught), the store's value map and
\* meta map are as they were before the pass, and no subscriber was notified.
C25_FailedPassCommitsNothing ==
    [][ ( /\ last'.op \in {"pass", "mount"}
          /\ Logged(last'.events, "start")
          /\ evaluateConditions(store.values, form.conditions).thrown )
        => /\ Logged(last'.events, "throw")
           /\ ~Logged(last'.events, "end")
           /\ store'.values = store.values
           /\ store'.meta = store.meta
           /\ store'.errors = store.errors
           /\ last'.writes = <<>>
           /\ last'.notes = NoNotes
           /\ Triggers(last'.events) = {} ]_vars

\* a pass of the mounted bridge was left by the exception of the value
\* function, after the rule's first effect was collected, while a global
\* listener was subscribed
C25_Witness ==
    /\ last.op = "pass"
    /\ Logged(last.events, "throw")
    /\ Get(store.values, <<"x">>) = Num(2)
    /\ Get(store.values, <<"y">>) = Str("bad")
    /\ \E h \in handles : h.fn = "globalObs"
    /\ bridge.unsubs # {}

\* C26: when the rule set is unmounted while a microtask is queued, the
\* microtask runs no pass for that instance and writes nothing to the store.
C26_NoPassAfterTeardown ==
    [][ (bridge.phase = "cleaned" /\ last'.op = "pass")
        => /\ ~Logged(last'.events, "start")
           /\ store' = store
           /\ last'.writes = <<>> ]_vars

\* after teardown nothing queues a new microtask: the only pass that can still
\* run is the one queued before the cleanup
C26_NothingQueuedAfterTeardown ==
    [][ bridge.phase = "cleaned" => bridge'.microtasks <= bridge.microtasks ]_vars

\* the keys the bridge holds a value subscription for
SubscribedDeps == { h.name : h \in { u \in bridge.unsubs : u.map = "value" } }

\* C27: after the set of registered field keys changes while the rule set is
\* mounted, the keys the bridge is subscribed to are the keys the predicates
\* read on the value map as it is after the change.
C27_DepsRefreshed ==
    [][ ( /\ bridge.phase = "mounted"
          /\ last'.op \in {"register", "unregister"}
          /\ KeySet(store'.values) # KeySet(store.values) )
        => SubscribedDeps' = DepsOf(form.conditions, store'.values) ]_vars

\* what the code keeps: the subscriptions are those computed at mount
C27_DepsAsAtMount ==
    bridge.phase = "mounted" => SubscribedDeps = bridge.depsSet

\* the children the index holds for a parent path, as a set
IndexedUnder(index, p) ==
    IF MapHas(index, p) THEN { index[p][i] : i \in 1..Len(index[p]) } ELSE {}

\* the index is the one derived from the keys: each key with a parent path
\* is listed, once, under its path minus the last dot segment
DerivedFrom(index, keys) ==
    LET keySet == { keys[i] : i \in 1..Len(keys) }
    IN  /\ DOMAIN index = { parentPath(k) : k \in keySet } \ {<<>>}
        /\ \A p \in DOMAIN index :
              /\ IndexedUnder(index, p) = { k \in keySet : parentPath(k) = p }
              /\ Len(index[p]) = Cardinality(IndexedUnder(index, p))

\* C28: at every cascade walk the parent-to-children index in use is the one
\* derived from the keys of the value map at that moment, after any sequence
\* of register, unregister, reset and value writes to unregistered paths.
C28_ChildrenIndexFresh ==
    \A i \in 1..Len(last.walks) : DerivedFrom(last.walks[i].index, last.walks[i].keys)

\* a pass that followed three store operations walked from a with the index
\* of the current keys: a.b is listed under a and a.b.c is not registered
C28_Witness ==
    /\ last.op = "pass"
    /\ opsLeft = 0
    /\ bridge.cachedFieldKeys = Keys(store.values)
    /\ Len(last.walks) > 0
    /\ last.walks[1].root = <<"a">>
    /\ IndexedUnder(last.walks[1].index, <<"a">>) = {<<"a", "b">>}
    /\ ~Registered(<<"a", "b", "c">>)

\* the pass that has just run wrote a new value into a field of the
\* dependency set
WroteDependency ==
    \E k \in bridge'.depsSet : Get(store'.values, k) # Get(store.values, k)

\* C29: whenever a pass, the initial pass of the mount included, writes a new
\* value into a field of the dependency set, a follow-up pass is queued, which
\* will evaluate the rules on the written value.
C29_FollowUpOnSelfWrite ==
    [][ (last'.op \in {"pass", "mount"} /\ WroteDependency)
        => (bridge'.scheduled /\ bridge'.microtasks > 0) ]_vars

\* C29 for the passes run by the microtask of a mounted bridge
C29_FollowUpAfterMicrotask ==
    [][ (last'.op = "pass" /\ bridge.phase = "mounted" /\ WroteDependency)
        => (bridge'.scheduled /\ bridge'.microtasks > 0) ]_vars

\* a pass of the microtask changed x from 1 to 2 and queued its follow-up
C29_FollowUpQueued ==
    /\ form.name = "self"
    /\ last.op = "pass"
    /\ Logged(last.events, "trigger")
    /\ Get(store.values, <<"x">>) = Num(2)
    /\ bridge.microtasks = 1

\* what the code keeps of C29: a pass of the microtask that writes a field
\* whose listener Set still holds the bridge's trigger queues the follow-up
C29_FollowUpWhileSubscribed ==
    [][ ( /\ last'.op = "pass"
          /\ bridge.phase = "mounted"
          /\ \E k \in bridge'.depsSet :
                /\ Get(store'.values, k) # Get(store.values, k)
                /\ \E h \in bridge.unsubs : h.name = k /\ Notified(h, notifier) )
        => (bridge'.scheduled /\ bridge'.microtasks > 0) ]_vars

\* the step resolves the i-th promise in flight
ResolvedAt(i) ==
    /\ last'.op = "resolve"
    /\ i \in 1..Len(inflight)
    /\ last'.promise = <<inflight[i]>>
    /\ inflight' = SubSeq(inflight, 1, i - 1) \o SubSeq(inflight, i + 1, Len(inflight))

\* a dispatch for the same field made after the i-th one is still in flight
LaterDispatch(i) ==
    \E j \in (i + 1)..Len(inflight) : inflight[j].key = inflight[i].key

\* api.isValidating()
isValidating == store.pending # {}

\* C30: a dispatch that resolves while its field is effectively validatable
\* and holds the value of the dispatch finds the field in the pending set and
\* isValidating() true; and the resolution of an earlier dispatch neither
\* clears the pending mark of a later dispatch for the same field nor writes
\* the field's error in its place.
C30_InFlightTracking ==
    [][ \A i \in 1..Len(inflight) :
          ResolvedAt(i) =>
            /\ ( /\ isEffectivelyValidatable(inflight[i].key, 1, store.meta)
                 /\ Get(store.values, inflight[i].key) = inflight[i].valueAtStart )
               => (inflight[i].key \in store.pending /\ isValidating)
            /\ LaterDispatch(i) =>
                 /\ inflight[i].key \in store'.pending
                 /\ store'.errors = store.errors ]_vars

\* the second half of C30 alone
C30_EarlierSparesLater ==
    [][ \A i \in 1..Len(inflight) :
          (ResolvedAt(i) /\ LaterDispatch(i)) =>
              /\ inflight[i].key \in store'.pending
              /\ store'.errors = store.errors ]_vars

\* the first half of C30 alone
C30_PendingAtResolution ==
    [][ \A i \in 1..Len(inflight) :
          ( /\ ResolvedAt(i)
            /\ isEffectivelyValidatable(inflight[i].key, 1, store.meta)
            /\ Get(store.values, inflight[i].key) = inflight[i].valueAtStart )
          => (inflight[i].key \in store.pending /\ isValidating) ]_vars

-----------------------------------------------------------------------------
(* Meta consistency and the cascade *)

\* the fields the pass that has just ended handed to setMetaIfChanged: the
\* show-controlled fields (baseline), the keys of the evaluator's meta patch,
\* and every field a cascade walk visited
TouchedByPass == { last.writes[i].name : i \in 1..Len(last.writes) }

\* the pass that has just ended ran to its end
PassCompleted == PassEnded /\ Logged(last.events, "end")

\* C31: when a pass ends, every field that is show-controlled, named in the
\* pass's meta patch or reached by the pass's cascade and that has
\* visible = false has validate = false.
C31_MetaConsistency ==
    PassCompleted =>
        \A f \in TouchedByPass \cup ShowControlled :
            IsHidden(f) => MetaOf(f).validate = JSFalse

\* a pass of the nested form whose meta patch hid a with { visible: false }
\* alone, while validate was still true, and whose cascade then wrote
\* validate = false
C31_Witness ==
    /\ form.name = "nested"
    /\ PassCompleted
    /\ HiddenUnvalidated(<<"a">>)
    /\ \E i, j \in 1..Len(last.writes) :
          /\ i < j
          /\ last.writes[i].name = <<"a">>
          /\ last.writes[i].patch = [NoPatch EXCEPT !.visible = JSFalse]
          /\ last.writes[i].called
          /\ last.writes[j].name = <<"a">>
          /\ last.writes[j].patch = HidePatch
          /\ last.writes[j].called

\* the root of a walk and every field the children index lists below it
RECURSIVE IndexClosure(_, _)
IndexClosure(index, nodes) ==
    LET more == nodes \cup UNION { IndexedUnder(index, n) : n \in nodes }
    IN  IF more = nodes THEN nodes ELSE IndexClosure(index, more)

\* the meta a map holds for a field
MetaIn(meta, f) == IF MapHas(meta, f) THEN meta[f] ELSE NoPatch

\* the cascade walked once from every cascade root of the pass, in order
WalkedRoots == [i \in 1..Len(last.walks) |-> last.walks[i].root]

\* C32: when a cascade root has visible = true at the cascade step of a pass,
\* the walk from that root leaves the root and every descendant found in the
\* children index with visible = true and validate = true.
C32_ShownCascade ==
    PassCompleted =>
        \A i \in 1..Len(last.walks) :
            MetaIn(last.walks[i].before, last.walks[i].root).visible = JSTrue =>
                /\ last.walks[i].patch = ShowPatch
                /\ \A f \in IndexClosure(last.walks[i].index, {last.walks[i].root}) :
                      /\ MetaIn(last.walks[i].after, f).visible = JSTrue
                      /\ MetaIn(last.walks[i].after, f).validate = JSTrue

\* every cascade root of a completed pass has a meta entry with a boolean
\* visible by the time it is walked, so it is walked, once, hidden or shown
C32_EveryRootWalked ==
    PassCompleted =>
        /\ \A i \in 1..Len(last.walks) :
              MetaIn(last.walks[i].before, last.walks[i].root).visible \in {JSTrue, JSFalse}
        /\ \A i, j \in 1..Len(last.walks) :
              last.walks[i].root = last.walks[j].root => i = j
        /\ { WalkedRoots[i] : i \in 1..Len(WalkedRoots) }
              \subseteq TouchedByPass

\* a pass of the nested form with x = 2: a.b was hidden and unvalidated by the
\* baseline, shown by the rule, and the walk from a.b made a.b and a.b.c
\* visible and validatable
C32_Witness ==
    /\ form.name = "nested"
    /\ PassCompleted
    /\ \E i \in 1..Len(last.walks) :
          /\ last.walks[i].root = <<"a", "b">>
          /\ MetaIn(last.walks[i].before, <<"a", "b">>) =
                [MetaDefault EXCEPT !.validate = JSFalse]
          /\ <<"a", "b", "c">> \in IndexClosure(last.walks[i].index, {<<"a", "b">>})
          /\ MetaIn(last.walks[i].after, <<"a", "b">>) = MetaDefault
          /\ MetaIn(last.walks[i].after, <<"a", "b", "c">>) = MetaDefault
          /\ \E j \in 1..Len(last.writes) :
                /\ last.writes[j].name = <<"a", "b", "c">>
                /\ last.writes[j].patch = ShowPatch
                /\ last.writes[j].called

-----------------------------------------------------------------------------
(* Subscription mode *)

\* the keys under which scheduleRun is a value listener
ScheduleRunKeys(n) ==
    { k \in DOMAIN n.value : "scheduleRun" \in n.sets[n.value[k]] }

C33_DepsSetTraced ==
    [][ (last'.op = "mount" /\ bridge'.phase \in {"mounted", "failed"}) =>
            bridge'.depsSet = DepsOf(form.conditions, store.values) ]_vars

C33_WitnessDeps ==
    /\ form.name = "country"
    /\ last.op = "mount"
    /\ bridge.phase = "mounted"
    /\ ScheduleRunKeys(notifier) = {<<"country">>}
    /\ notifier.global = {}
    /\ Cardinality(bridge.unsubs) = 1

-----------------------------------------------------------------------------
(* Cycle detection *)

\* the place of a node in GrNodes
NodeRank(n) == CHOOSE i \in 1..Len(GrNodes) : GrNodes[i] = n

\* a cycle read from its k-th node on
Rotation(p, k) == [i \in 1..Len(p) |-> p[((i + k - 2) % Len(p)) + 1]]

\* a cycle read from its node of least rank on
Canonical(p) ==
    Rotation(p, CHOOSE k \in 1..Len(p) :
                    \A j \in 1..Len(p) : NodeRank(p[k]) <= NodeRank(p[j]))

\* the distinct cycles of a graph: the closed walks along forward edges that
\* repeat no node, each read from its node of least rank on
SimpleCycles(graph) ==
    { p \in UNION { [1..n -> GrNodeSet] : n \in 1..Len(GrNodes) } :
        /\ \A i, j \in 1..Len(p) : p[i] = p[j] => i = j
        /\ \A i \in 1..Len(p) :
              <<p[i], p[(i % Len(p)) + 1]>> \in GrEdges(graph)
        /\ p = Canonical(p) }

\* an entry is a path along forward edges whose first and last node are the same
CyclePath(graph, e) ==
    /\ Len(e) >= 2
    /\ e[1] = e[Len(e)]
    /\ \A i \in 1..(Len(e) - 1) : <<e[i], e[i + 1]>> \in GrEdges(graph)

\* the cycle an entry stands for: the entry without its repeated start node
CycleOf(e) == Canonical(SubSeq(e, 1, Len(e) - 1))

\* C34: for every forward graph, detectCycles returns one entry for each
\* distinct cycle of the graph, and every entry is a path along forward edges
\* whose first and last node are the same.
C34_CyclesCompleteAndSound ==
    grCycles.called =>
        /\ \A i \in 1..Len(grCycles.cycles) : CyclePath(grGraph, grCycles.cycles[i])
        /\ { CycleOf(grCycles.cycles[i]) : i \in 1..Len(grCycles.cycles) }
              = SimpleCycles(grGraph)
        /\ Len(grCycles.cycles) = Cardinality(SimpleCycles(grGraph))

\* what the search does guarantee: every entry is a closed path along forward
\* edges that stands for a distinct cycle of the graph, no cycle is entered
\* twice, and a graph with a cycle gets at least one entry
C34_SoundAndNonEmpty ==
    grCycles.called =>
        /\ \A i \in 1..Len(grCycles.cycles) :
              /\ CyclePath(grGraph, grCycles.cycles[i])
              /\ CycleOf(grCycles.cycles[i]) \in SimpleCycles(grGraph)
        /\ \A i, j \in 1..Len(grCycles.cycles) :
              CycleOf(grCycles.cycles[i]) = CycleOf(grCycles.cycles[j]) => i = j
        /\ SimpleCycles(grGraph) # {} => grCycles.cycles # <<>>

\* the graph a -> b, b -> c, c -> a, a -> c has the cycles a b c and a c;
\* the search enters the first one only
C34_MissedCycle ==
    /\ grCycles.called
    /\ GrEdges(grGraph) = { <<<<"a">>, <<"b">>>>, <<<<"b">>, <<"c">>>>,
                            <<<<"c">>, <<"a">>>>, <<<<"a">>, <<"c">>>> }
    /\ grCycles.cycles = << << <<"a">>, <<"b">>, <<"c">>, <<"a">> >> >>
    /\ Cardinality(SimpleCycles(grGraph)) = 2

-----------------------------------------------------------------------------
(* Quiescence *)

\* the rule set has no set and no clear effect
NoValueEffects(rules) ==
    \A i \in 1..Len(rules) : \A e \in 1..Len(rules[i].effects) :
        rules[i].effects[e].type \notin {"set", "clear"}

\* the bridge is idle: no pass running, none scheduled, no microtask queued
BridgeIdle == ~bridge.running /\ ~bridge.scheduled /\ bridge.microtasks = 0

\* C35: for a rule set without set or clear effects, after an external value
\* change of a mounted form the passes come to an end: the bridge returns to
\* idle with no pass scheduled, with dependency subscriptions and with the
\* global-subscription fallback alike.
C35_Quiescence ==
    (NoValueEffects(form.conditions) /\ bridge.phase = "mounted" /\ last.op = "setValue")
        ~> BridgeIdle

\* with dependency subscriptions the bridge does return to idle
C35_QuiescenceOnDependencies ==
    ( /\ NoValueEffects(form.conditions)
      /\ bridge.phase = "mounted"
      /\ bridge.depsSet # {}
      /\ last.op = "setValue" )
        ~> BridgeIdle

\* with dependency subscriptions a pass never queues a pass
C35_PassQueuesNoPass ==
    [][ (last'.op = "pass" /\ bridge.depsSet # {} /\ NoValueEffects(form.conditions))
            => bridge'.microtasks = bridge.microtasks - 1 ]_vars

\* with the global subscription, a pass that changes meta schedules the next:
\* the pass ended with the store as it found it and with a pass queued
C35_PassSchedulesPass ==
    /\ form.name = "showAlways"
    /\ last.op = "pass"
    /\ Logged(last.events, "end")
    /\ Logged(last.events, "trigger")
    /\ \E i \in 1..Len(last.writes) : last.writes[i].called
    /\ bridge.scheduled
    /\ bridge.microtasks = 1

-----------------------------------------------------------------------------
(* Hides and errors across a pass *)

\* the fields for which the meta patch has visible = false
HiddenByPatch(meta) == { meta[i].k : i \in { j \in 1..Len(meta) : meta[j].v.visible = JSFalse } }

\* the step is a pass that ran to its end
CompletedPass == last'.op \in {"mount", "pass"} /\ Logged(last'.events, "end")

\* C36: if the meta patch the evaluator computed in a pass has visible = false
\* for a field, the field has visible = false when the pass ends, whatever the
\* visibility of its ancestors and the order of the cascade roots.
C36_WinningHideHonoured ==
    [][ CompletedPass =>
          \A f \in HiddenByPatch(evaluateConditions(store.values, form.conditions).meta) :
              MetaIn(store'.meta, f).visible = JSFalse ]_vars

\* a hide is honoured for a field none of whose ancestor paths is a cascade
\* root of the pass
C36_HideWithoutAncestorRoot ==
    [][ CompletedPass =>
          \A f \in HiddenByPatch(evaluateConditions(store.values, form.conditions).meta) :
              (\A r \in { last'.walks[i].root : i \in 1..Len(last'.walks) } : ~Under(r, f))
                  => MetaIn(store'.meta, f).visible = JSFalse ]_vars

\* the pass of the nested form with x = 3: the patch hid a.b.c, the cascade
\* walked from a.b.c and then from the visible section a, and a.b.c ends visible
C36_HideUndone ==
    /\ form.name = "nested"
    /\ last.op = "pass"
    /\ Logged(last.events, "end")
    /\ Get(store.values, <<"x">>) = Num(3)
    /\ SectionRegistered
    /\ \E i, j \in 1..Len(last.walks) :
          /\ i < j
          /\ last.walks[i].root = <<"a", "b", "c">>
          /\ last.walks[i].patch = HidePatch
          /\ last.walks[j].root = <<"a">>
          /\ last.walks[j].patch = ShowPatch
    /\ IsVisible(<<"a", "b", "c">>)

\* store.errors[key] ?? null in a store
ErrorIn(st, f) ==
    IF MapHas(st.errors, f) /\ st.errors[f] # Undefined THEN st.errors[f] ELSE JSNull

\* the fields of the form in use
FormFields == { form.fields[i].k : i \in 1..Len(form.fields) }

\* C37: for every field that has visible = true both before and after a pass,
\* the pass leaves the field's validation error and its pending-validation
\* mark unchanged.
C37_ErrorsOfVisibleKept ==
    [][ CompletedPass =>
          \A f \in FormFields :
              ( /\ MetaIn(store.meta, f).visible = JSTrue
                /\ MetaIn(store'.meta, f).visible = JSTrue ) =>
                  /\ ErrorIn(store', f) = ErrorIn(store, f)
                  /\ (f \in store'.pending) = (f \in store.pending) ]_vars

\* a pass keeps the error and the pending mark of every field it did not
\* hand to setMeta with visible = false or validate = false
C37_KeptUnlessHiddenInPass ==
    [][ CompletedPass =>
          \A f \in FormFields :
              (\A i \in 1..Len(last'.writes) :
                  (last'.writes[i].name = f /\ last'.writes[i].called)
                      => /\ last'.writes[i].patch.visible # JSFalse
                         /\ last'.writes[i].patch.validate # JSFalse) =>
                  /\ ErrorIn(store', f) = ErrorIn(store, f)
                  /\ (f \in store'.pending) = (f \in store.pending) ]_vars

\* the bridge's value subscription to field k is still in k's listener Set
TriggerHeld(k) ==
    \E h \in bridge.unsubs : h.map = "value" /\ h.name = k /\ Notified(h, notifier)

\* C38: while the rule set stays mounted, a setValue on a field of the
\* dependency set that follows the field's registration (its first one or
\* one after an unregister) leaves a pass scheduled.
C38_SubscriptionSurvivesReregistration ==
    [][ ( /\ bridge.phase = "mounted"
          /\ last.op = "register"
          /\ last.key \in bridge.depsSet
          /\ last'.op = "setValue"
          /\ last'.key = last.key
          /\ bridge'.phase = "mounted" )
        => (bridge'.scheduled /\ bridge'.microtasks > 0) ]_vars

\* what the code keeps of C38: a setValue on a dependency whose listener Set
\* still holds the bridge's trigger leaves a pass scheduled
C38_ScheduledWhileTriggerHeld ==
    [][ ( /\ bridge.phase = "mounted"
          /\ last'.op = "setValue"
          /\ last'.key \in bridge.depsSet
          /\ TriggerHeld(last'.key) )
        => (bridge'.scheduled /\ bridge'.microtasks > 0) ]_vars

\* a dependency was unregistered and registered again under a mounted rule
\* set: the field is back, the listener Set with the bridge's trigger is not
C38_TriggerLost ==
    /\ bridge.phase = "mounted"
    /\ last.op = "register"
    /\ last.key \in bridge.depsSet
    /\ Registered(last.key)
    /\ \E h \in bridge.unsubs : h.map = "value" /\ h.name = last.key
    /\ ~TriggerHeld(last.key)

\* the rules builder b of a heap yields from toRules(), with the effects
\* their arrays hold
RulesOf(heap, b) == RulesNow(ToRules(heap.builders[b]), heap.arrays)

\* the rules have the same predicates and the same effects, rule by rule
SameButPriority(rules, others) ==
    /\ Len(rules) = Len(others)
    /\ \A i \in 1..Len(rules) :
          /\ rules[i].when = others[i].when
          /\ rules[i].effects = others[i].effects

\* C39: withPriority(n) called on any builder, else-builders with else-branch
\* effects included, returns a builder whose rules all carry priority n and
\* have exactly the predicates and effects of the rules of the builder it
\* was called on.
C39_WithPriorityOnlyPriority ==
    [][\A b \in 1..Len(dslBuilders) : \A pr \in DslPriorities :
        DslWithPriorityOn(b, pr) =>
            LET made == BuilderWithPriority(DslHeap, b, pr)
            IN  /\ \A i \in 1..Len(RulesOf(made, made.ret)) :
                      RulesOf(made, made.ret)[i].priority = pr
                /\ SameButPriority(RulesOf(made, made.ret), RulesOf(DslHeap, b))]_vars

\* what the code keeps of C39: every rule of the returned builder carries
\* priority n, the then-rule has the effects it had, and nothing but the
\* else-rule's effects differs; an EffectBuilder keeps all its effects
C39_PriorityAndThenEffectsKept ==
    [][\A b \in 1..Len(dslBuilders) : \A pr \in DslPriorities :
        DslWithPriorityOn(b, pr) =>
            LET made == BuilderWithPriority(DslHeap, b, pr)
                rules == RulesOf(made, made.ret)
                before == RulesOf(DslHeap, b)
            IN  /\ Len(rules) = Len(before)
                /\ \A i \in 1..Len(rules) :
                      /\ rules[i].priority = pr
                      /\ rules[i].when = before[i].when
                /\ rules[1].effects = before[1].effects
                /\ dslBuilders[b].kind = "then" => SameButPriority(rules, before)
                /\ dslBuilders[b].kind = "else" => rules[2].effects = <<>>]_vars

\* when(P).show(A).else().show(B).withPriority(5): the last builder made is
\* an ElseEffectBuilder with priority 5 whose else-branch is empty, made
\* from one whose else-branch holds show(B)
C39_ElseEffectsDropped ==
    \E b \in 1..Len(dslBuilders) :
        LET made == dslBuilders[Len(dslBuilders)]
        IN  /\ b < Len(dslBuilders)
            /\ dslBuilders[b].kind = "else"
            /\ made.kind = "else"
            /\ made.priority = Num(5)
            /\ made.effects = dslBuilders[b].effects
            /\ dslArrays[dslBuilders[b].elseEffects] = <<Effect("show", FieldB)>>
            /\ dslArrays[made.elseEffects] = <<>>

====
